---- MODULE Spec2Model ----
(***************************************************************************)
(* Model of the rssbot feed store (src/data.rs) and of the way the fetcher *)
(* and the command handlers reach it through Arc<Mutex<Database>>.         *)
(*                                                                         *)
(* Conventions.                                                            *)
(*   Option<T>   None is <<>>, Some(x) is <<x>>.                            *)
(*   String      a sequence of decimal digits 1..9 ("12" is <<1, 2>>).      *)
(*   HashMap     a function whose DOMAIN is the key set.                    *)
(*   HashSet     a set.                                                     *)
(***************************************************************************)
EXTENDS Integers, Sequences, FiniteSets, TLC

VARIABLES
    feeds,        \* Database.feeds: FeedId -> Feed
    subscribers,  \* Database.subscribers: SubscriberId -> set of FeedId
    file,         \* the persisted file: the feed records written by the last save()
    poisoned,     \* Mutex<Database> is poisoned (a store call panicked under the lock)
    now,          \* SystemTime::now(), in days
    last,         \* the store call of the last step, if it made one: its name, the
                  \* ids, the URL and the number of fetched items it was given, and
                  \* its return value
    qfeeds,       \* FetchQueue.feeds: link -> the Feed cloned when it was enqueued
    notifies,     \* FetchQueue.notifies: the timers of the DelayQueue
    counter,      \* Throttle.counter
    tasks,        \* the spawned fetch-and-notify cycles in flight, in spawn order
    running,      \* the scheduler loop of start() is alive
    ev,           \* what the last step did in the fetcher, if it was one of its steps
    down,         \* link -> the failed fetches seen so far: the day of the first one,
                  \* the day of the last one, the days an escalation notice was
                  \* decided on, and the day of the first one since the last
                  \* successful update or reset
    hasher,       \* a Size64Hasher: its fields, and the panic message once a write
                  \* has panicked
    writes        \* the writes made to the hasher so far, in order

storeVars == <<feeds, subscribers, file, poisoned, last>>

fetcherVars == <<qfeeds, notifies, counter, tasks, running, ev>>

hashVars == <<hasher, writes>>

vars == <<feeds, subscribers, file, poisoned, now, last,
          qfeeds, notifies, counter, tasks, running, ev, down, hasher, writes>>

(***************************************************************************)
(* Bounds of the model.                                                    *)
(***************************************************************************)
\* The longest fetch of the change-detection specification.
MaxItems == 3

\* The number of subscribers of the subscribe/unsubscribe specification.
MaxSubscribers == 3

None == <<>>

Min(a, b) == IF a < b THEN a ELSE b

Max(a, b) == IF a > b THEN a ELSE b

Some(x) == <<x>>

\* Removes key k from the map m (HashMap::remove); a no-op when k is absent.
MapRemove(m, k) == [x \in (DOMAIN m) \ {k} |-> m[x]]

\* Inserts or overwrites m[k] (HashMap::insert).
MapInsert(m, k, v) == [x \in (DOMAIN m) \cup {k} |-> IF x = k THEN v ELSE m[x]]

EmptyMap == [x \in {} |-> 0]

(***************************************************************************)
(* Hashing.  DefaultHasher (SipHash) is modelled by a function that is     *)
(* injective on the strings of the model: the decimal reading of the       *)
(* digit string.  Equal strings hash equally, whatever they were built     *)
(* from, which is all the store relies on.                                 *)
(***************************************************************************)
RECURSIVE gen_hash(_)
gen_hash(t) ==
    IF t = <<>> THEN 0
    ELSE gen_hash(SubSeq(t, 1, Len(t) - 1)) * 10 + t[Len(t)]

\* Option<&String>::map(as_str).unwrap_or_default()
StrOrDefault(o) == IF o = None THEN <<>> ELSE o[1]

gen_item_hash(item) ==
    IF item.id # None THEN gen_hash(item.id[1])
    ELSE gen_hash(StrOrDefault(item.title) \o StrOrDefault(item.link))

\* Vec<Item> -> Vec<u64>, in order.
ItemHashes(items) == [i \in 1..Len(items) |-> gen_item_hash(items[i])]

(***************************************************************************)
(* FeedSettings and the read-time merge with the defaults.                 *)
(***************************************************************************)
DefaultSettings ==
    [disable_preview |-> None, link_only |-> None,
     hide_rss_title |-> None, combine_msg |-> None]

UnwrapOr(o, d) == IF o = None THEN d ELSE o[1]

get_combined_feed_settings(settings) ==
    LET before == UnwrapOr(settings, DefaultSettings) IN
    [disable_preview |-> Some(UnwrapOr(before.disable_preview, TRUE)),
     link_only |-> Some(UnwrapOr(before.link_only, FALSE)),
     hide_rss_title |-> Some(UnwrapOr(before.hide_rss_title, FALSE)),
     combine_msg |-> Some(UnwrapOr(before.combine_msg, TRUE))]

(***************************************************************************)
(* Store operations as functions of the store (fs = feeds, idx = the       *)
(* subscriber index).  Each returns the new maps, the return value, whether *)
(* save() ran and whether the call panicked.                               *)
(***************************************************************************)
\* The record of a store call: which operation, on what, and what it returned.
NoCall == [op |-> "none"]

Call(op, args, res) == [op |-> op, args |-> args, ret |-> res.ret, panic |-> res.panic]

Result(fs, idx, ret, saved, panic) ==
    [feeds |-> fs, subscribers |-> idx, ret |-> ret, saved |-> saved, panic |-> panic]

NewFeed(rss_link, rss) ==
    [link |-> rss_link,
     title |-> rss.title,
     down_time |-> None,
     ttl |-> rss.ttl,
     hash_list |-> ItemHashes(rss.items),
     subscribers |-> {},
     settings |-> EmptyMap]

is_subscribed(idx, subscriber, rss_link) ==
    subscriber \in DOMAIN idx /\ gen_hash(rss_link) \in idx[subscriber]

subscribe(fs, idx, subscriber, rss_link, rss) ==
    LET feed_id == gen_hash(rss_link)
        subscribed_feeds == IF subscriber \in DOMAIN idx THEN idx[subscriber] ELSE {}
    IN  IF feed_id \in subscribed_feeds
        THEN Result(fs, idx, FALSE, FALSE, FALSE)
        ELSE
          LET idx2 == MapInsert(idx, subscriber, subscribed_feeds \cup {feed_id})
              feed == IF feed_id \in DOMAIN fs THEN fs[feed_id] ELSE NewFeed(rss_link, rss)
              feed2 == [feed EXCEPT
                          !.subscribers = @ \cup {subscriber},
                          !.settings = IF subscriber \in DOMAIN @ THEN @
                                       ELSE MapInsert(@, subscriber, DefaultSettings)]
          IN  Result(MapInsert(fs, feed_id, feed2), idx2, TRUE, TRUE, FALSE)

\* RemoveFromEntry without the removal of an entry that became empty.
RemoveFromEntry_KeepEmpty(idx, subscriber, feed_id) ==
    MapInsert(idx, subscriber, idx[subscriber] \ {feed_id})

\* unsubscribe on the index: feed_id leaves the subscriber's entry, and the entry
\* is removed when that empties it (clear_subscriber).
RemoveFromEntry(idx, subscriber, feed_id) ==
    LET rest == idx[subscriber] \ {feed_id} IN
    IF rest = {} THEN MapRemove(idx, subscriber) ELSE MapInsert(idx, subscriber, rest)

\* unsubscribe that leaves the subscriber's entry in the feed's settings map.
unsubscribe_KeepSettings(fs, idx, subscriber, rss_link) ==
    LET feed_id == gen_hash(rss_link) IN
    IF ~(subscriber \in DOMAIN idx /\ feed_id \in idx[subscriber])
    THEN Result(fs, idx, None, FALSE, FALSE)
    ELSE
      LET idx2 == RemoveFromEntry(idx, subscriber, feed_id)
      IN  IF feed_id \notin DOMAIN fs \/ subscriber \notin fs[feed_id].subscribers
          THEN Result(fs, idx2, None, FALSE, FALSE)
          ELSE
            LET result == [fs[feed_id] EXCEPT !.subscribers = @ \ {subscriber}] IN
            Result(IF result.subscribers = {} THEN MapRemove(fs, feed_id)
                   ELSE MapInsert(fs, feed_id, result),
                   idx2, Some(result), TRUE, FALSE)

unsubscribe(fs, idx, subscriber, rss_link) ==
    LET feed_id == gen_hash(rss_link) IN
    IF ~(subscriber \in DOMAIN idx /\ feed_id \in idx[subscriber])
    THEN Result(fs, idx, None, FALSE, FALSE)
    ELSE
      LET idx2 == RemoveFromEntry(idx, subscriber, feed_id)
      IN  IF feed_id \notin DOMAIN fs
          THEN Result(fs, idx2, None, FALSE, FALSE)
          ELSE
            LET feed == [fs[feed_id] EXCEPT !.settings = MapRemove(@, subscriber)] IN
            IF subscriber \notin feed.subscribers
            THEN Result(MapInsert(fs, feed_id, feed), idx2, None, FALSE, FALSE)
            ELSE
              LET result == [feed EXCEPT !.subscribers = @ \ {subscriber}] IN
              Result(IF result.subscribers = {} THEN MapRemove(fs, feed_id)
                     ELSE MapInsert(fs, feed_id, result),
                     idx2, Some(result), TRUE, FALSE)

\* The iteration orders of a HashSet: every sequence listing S once.
Orders(S) ==
    {o \in [1..Cardinality(S) -> S] : \A i, j \in 1..Cardinality(S) : o[i] = o[j] => i = j}

\* subscribed_feeds: the subscriber's feeds, cloned, in the index entry's iteration
\* order `order`; indexing self.feeds with an id it does not hold panics.
subscribed_feeds(fs, idx, subscriber, order) ==
    IF subscriber \notin DOMAIN idx THEN [ret |-> None, panic |-> FALSE]
    ELSE IF \E i \in 1..Len(order) : order[i] \notin DOMAIN fs
         THEN [ret |-> None, panic |-> TRUE]
         ELSE [ret |-> Some([i \in 1..Len(order) |-> fs[order[i]]]), panic |-> FALSE]

\* The loop of delete_subscriber over the cloned feeds, from the i-th on.
RECURSIVE DeleteLoop(_, _, _, _, _, _)
DeleteLoop(fs, idx, subscriber, list, i, saved) ==
    IF i > Len(list) THEN Result(fs, idx, TRUE, saved, FALSE)
    ELSE LET r == unsubscribe(fs, idx, subscriber, list[i].link) IN
         DeleteLoop(r.feeds, r.subscribers, subscriber, list, i + 1, saved \/ r.saved)

delete_subscriber(fs, idx, subscriber, order) ==
    LET got == subscribed_feeds(fs, idx, subscriber, order) IN
    IF got.panic THEN Result(fs, idx, FALSE, FALSE, TRUE)
    ELSE IF got.ret = None THEN Result(fs, idx, FALSE, FALSE, FALSE)
    ELSE DeleteLoop(fs, idx, subscriber, got.ret[1], 1, FALSE)

\* MigrateFeed giving `to` fresh default settings instead of the clone.
MigrateFeed_DefaultSettings(feed, from, to) ==
    [feed EXCEPT !.subscribers = (@ \ {from}) \cup {to},
                 !.settings = MapInsert(MapRemove(@, from), to, DefaultSettings)]

\* One turn of the loop of update_subscriber on the feed `feed`.
MigrateFeed(feed, from, to) ==
    LET setting == feed.settings[from] IN
    [feed EXCEPT !.subscribers = (@ \ {from}) \cup {to},
                 !.settings = MapInsert(MapRemove(@, from), to, setting)]

\* The loop of update_subscriber over the removed index entry, from the i-th feed
\* on; a missing feed or a missing settings entry of `from` panics (unwrap), leaving
\* the index entry of `from` removed and the earlier feeds rewritten.
RECURSIVE MigrateLoop(_, _, _, _, _, _)
MigrateLoop(fs, idx, from, to, order, i) ==
    IF i > Len(order)
    THEN Result(fs, MapInsert(idx, to, {order[k] : k \in 1..Len(order)}), TRUE, FALSE, FALSE)
    ELSE IF order[i] \notin DOMAIN fs \/ from \notin DOMAIN fs[order[i]].settings
         THEN Result(fs, idx, FALSE, FALSE, TRUE)
         ELSE MigrateLoop(MapInsert(fs, order[i], MigrateFeed(fs[order[i]], from, to)),
                          idx, from, to, order, i + 1)

update_subscriber(fs, idx, from, to, order) ==
    IF from \notin DOMAIN idx THEN Result(fs, idx, FALSE, FALSE, FALSE)
    ELSE MigrateLoop(fs, MapRemove(idx, from), from, to, order, 1)

\* The index entry whose iteration order a call walks (empty when there is none).
EntryOf(idx, subscriber) == IF subscriber \in DOMAIN idx THEN idx[subscriber] ELSE {}

get_setting(fs, idx, subscriber, rss_link) ==
    LET feed_id == gen_hash(rss_link) IN
    IF feed_id \notin DOMAIN fs THEN Result(fs, idx, None, FALSE, FALSE)
    ELSE IF subscriber \notin DOMAIN fs[feed_id].settings
         THEN Result(fs, idx, None, FALSE, TRUE)
         ELSE Result(fs, idx,
                     Some(get_combined_feed_settings(Some(fs[feed_id].settings[subscriber]))),
                     FALSE, FALSE)

update_setting(fs, idx, subscriber, rss_link, new_settings) ==
    LET feed_id == gen_hash(rss_link) IN
    IF feed_id \notin DOMAIN fs THEN Result(fs, idx, FALSE, FALSE, FALSE)
    ELSE Result([fs EXCEPT ![feed_id].settings = MapInsert(@, subscriber, new_settings)],
                idx, TRUE, TRUE, FALSE)

\* A get_or_update_down_time that stamps the feed anew at every call.
get_or_update_down_time_Restamp(fs, idx, rss_link, t_now) ==
    LET feed_id == gen_hash(rss_link) IN
    IF feed_id \notin DOMAIN fs THEN Result(fs, idx, None, FALSE, FALSE)
    ELSE IF fs[feed_id].down_time # None
         THEN LET t == fs[feed_id].down_time[1] IN
              Result([fs EXCEPT ![feed_id].down_time = Some(t_now)], idx,
                     Some(IF t_now >= t THEN t_now - t ELSE 0), FALSE, FALSE)
         ELSE Result([fs EXCEPT ![feed_id].down_time = Some(t_now)], idx, Some(0),
                     FALSE, FALSE)

get_or_update_down_time(fs, idx, rss_link, t_now) ==
    LET feed_id == gen_hash(rss_link) IN
    IF feed_id \notin DOMAIN fs THEN Result(fs, idx, None, FALSE, FALSE)
    ELSE IF fs[feed_id].down_time # None
         THEN LET t == fs[feed_id].down_time[1] IN
              Result(fs, idx, Some(IF t_now >= t THEN t_now - t ELSE 0), FALSE, FALSE)
         ELSE Result([fs EXCEPT ![feed_id].down_time = Some(t_now)], idx, Some(0),
                     FALSE, FALSE)

reset_down_time(fs, idx, rss_link) ==
    LET feed_id == gen_hash(rss_link) IN
    IF feed_id \notin DOMAIN fs THEN Result(fs, idx, FALSE, FALSE, FALSE)
    ELSE Result([fs EXCEPT ![feed_id].down_time = None], idx, TRUE, FALSE, FALSE)

Contains(list, h) == \E i \in 1..Len(list) : list[i] = h

\* NewItems that also skips an item whose hash an earlier item of the same fetch has.
RECURSIVE NewItems_DedupWithinFetch(_, _)
NewItems_DedupWithinFetch(items, hash_list) ==
    IF items = <<>> THEN <<>>
    ELSE (IF Contains(hash_list, gen_item_hash(Head(items))) THEN <<>> ELSE <<Head(items)>>)
         \o NewItems_DedupWithinFetch(Tail(items), <<gen_item_hash(Head(items))>> \o hash_list)

\* The loop of update over the fetched items: those whose hash hash_list does
\* not contain, in order.
RECURSIVE NewItems(_, _)
NewItems(items, hash_list) ==
    IF items = <<>> THEN <<>>
    ELSE (IF Contains(hash_list, gen_item_hash(Head(items))) THEN <<>> ELSE <<Head(items)>>)
         \o NewItems(Tail(items), hash_list)

\* Iterator::take(n)
Take(list, n) == SubSeq(list, 1, IF n < Len(list) THEN n ELSE Len(list))

\* RebuildHashList with the cap taken for the old entries alone.
RebuildHashList_CapOldOnly(new_hash_list, hash_list, items_len) ==
    new_hash_list \o Take(hash_list, items_len * 2)

\* RebuildHashList with the old entries put first.
RebuildHashList_OldFirst(new_hash_list, hash_list, items_len) ==
    LET max_size == items_len * 2 IN
    Take(hash_list, max_size - Len(new_hash_list)) \o new_hash_list

\* The hash list update stores when it found new items: their hashes, then the
\* leading old entries up to max_size = items_len * 2 in all.
RebuildHashList(new_hash_list, hash_list, items_len) ==
    LET max_size == items_len * 2 IN
    new_hash_list \o Take(hash_list, max_size - Len(new_hash_list))

ItemsUpdate(items) == [type |-> "Items", items |-> items]

TitleUpdate(title) == [type |-> "Title", title |-> title]

\* An update that stores the fetched feed anew when the feed is unknown.
update_Recreate(fs, idx, rss_link, new_feed) ==
    LET feed_id == gen_hash(rss_link) IN
    IF feed_id \notin DOMAIN fs
    THEN Result(MapInsert(fs, feed_id, NewFeed(rss_link, new_feed)), idx,
                <<ItemsUpdate(new_feed.items)>>, TRUE, FALSE)
    ELSE
      LET feed == reset_down_time(fs, idx, rss_link).feeds[feed_id]
          items_len == Len(new_feed.items)
          new_items == NewItems(new_feed.items, feed.hash_list)
          new_hash_list == ItemHashes(new_items)
          hash_list == IF new_items # <<>>
                       THEN RebuildHashList(new_hash_list, feed.hash_list, items_len)
                       ELSE feed.hash_list
          updates == (IF new_items # <<>> THEN <<ItemsUpdate(new_items)>> ELSE <<>>)
                     \o (IF new_feed.title # feed.title
                         THEN <<TitleUpdate(new_feed.title)>> ELSE <<>>)
          feed2 == [feed EXCEPT !.hash_list = hash_list,
                                !.title = new_feed.title,
                                !.ttl = new_feed.ttl]
      IN  Result(MapInsert(fs, feed_id, feed2), idx, updates, updates # <<>>, FALSE)

update(fs, idx, rss_link, new_feed) ==
    LET feed_id == gen_hash(rss_link) IN
    IF feed_id \notin DOMAIN fs THEN Result(fs, idx, <<>>, FALSE, FALSE)
    ELSE
      LET feed == reset_down_time(fs, idx, rss_link).feeds[feed_id]
          items_len == Len(new_feed.items)
          new_items == NewItems(new_feed.items, feed.hash_list)
          new_hash_list == ItemHashes(new_items)
          hash_list == IF new_items # <<>>
                       THEN RebuildHashList(new_hash_list, feed.hash_list, items_len)
                       ELSE feed.hash_list
          updates == (IF new_items # <<>> THEN <<ItemsUpdate(new_items)>> ELSE <<>>)
                     \o (IF new_feed.title # feed.title
                         THEN <<TitleUpdate(new_feed.title)>> ELSE <<>>)
          feed2 == [feed EXCEPT !.hash_list = hash_list,
                                !.title = new_feed.title,
                                !.ttl = new_feed.ttl]
      IN  Result(MapInsert(fs, feed_id, feed2), idx, updates, updates # <<>>, FALSE)

\* Database::open on the saved feed records: the feeds keyed by the hash of their
\* link, and the index rebuilt by inverting every feed's subscriber set.  (save
\* always writes a settings map, so the upgrade of records without one is idle.)
open(saved) ==
    LET list == {saved[k] : k \in DOMAIN saved}
        ids == {gen_hash(feed.link) : feed \in list}
        all == UNION {feed.subscribers : feed \in list}
    IN  [feeds |-> [id \in ids |-> CHOOSE feed \in list : gen_hash(feed.link) = id],
         subscribers |->
             [s \in all |-> {gen_hash(feed.link) : feed \in {g \in list : s \in g.subscribers}}]]

\* The file after a store call with result r: save() rewrites it with all feeds.
FileAfter(r) == IF r.saved THEN r.feeds ELSE file

(***************************************************************************)
(* Inputs.                                                                 *)
(***************************************************************************)
\* The subscribers of the specification of all store operations.
SubscriberIds == {7, 9001}

UrlA == <<8, 1>>

UrlB == <<8, 2>>

Urls == {UrlA, UrlB}

Item(id, title, link) == [id |-> id, title |-> title, link |-> link]

Rss(title, ttl, items) == [title |-> title, ttl |-> ttl, items |-> items]

\* The content every fetch returns in the specifications about membership.
RssFixed == Rss("a", None, <<Item(Some(<<1>>), None, None)>>)

NoEvent == [type |-> "none"]

\* The effect of a store call on the store, the file and the lock.
StoreCall(op, args, res) ==
    /\ feeds' = res.feeds
    /\ subscribers' = res.subscribers
    /\ file' = FileAfter(res)
    /\ poisoned' = res.panic
    /\ last' = Call(op, args, res)

\* db.lock() of the cycle i (0: of the scheduler or a command handler) returns
\* at once: no other cycle holds the guard.
LockFree(i) == \A j \in DOMAIN tasks \ {i} : tasks[j].lock # "held"

\* Applies the outcome of a store call a command handler makes under
\* db.lock().unwrap(); on a poisoned lock the handler panics before the call.
Apply(op, args, res) ==
    /\ ~poisoned
    /\ LockFree(0)
    /\ StoreCall(op, args, res)
    /\ ev' = NoEvent
    /\ UNCHANGED <<now, qfeeds, notifies, counter, tasks, running, down, hashVars>>

Subscribe(s, url, rss) ==
    Apply("subscribe", <<s, url, Len(rss.items)>>, subscribe(feeds, subscribers, s, url, rss))

Unsubscribe(s, url) ==
    Apply("unsubscribe", <<s, url>>, unsubscribe(feeds, subscribers, s, url))

DeleteSubscriber(s) ==
    \E order \in Orders(EntryOf(subscribers, s)) :
        Apply("delete_subscriber", <<s>>, delete_subscriber(feeds, subscribers, s, order))

UpdateSubscriber(from, to) ==
    \E order \in Orders(EntryOf(subscribers, from)) :
        Apply("update_subscriber", <<from, to>>,
              update_subscriber(feeds, subscribers, from, to, order))

GetSetting(s, url) ==
    Apply("get_setting", <<s, url>>, get_setting(feeds, subscribers, s, url))

UpdateSetting(s, url, new_settings) ==
    Apply("update_setting", <<s, url>>,
          update_setting(feeds, subscribers, s, url, new_settings))

Update(url, rss) ==
    Apply("update", <<url, Len(rss.items)>>, update(feeds, subscribers, url, rss))

GetOrUpdateDownTime(url) ==
    Apply("get_or_update_down_time", <<url>>,
          get_or_update_down_time(feeds, subscribers, url, now))

ResetDownTime(url) ==
    Apply("reset_down_time", <<url>>, reset_down_time(feeds, subscribers, url))

\* Another fetch result: other title, a TTL, other items.
RssOther == Rss("b", Some(1), <<Item(Some(<<2>>), None, None)>>)

RssInputs == {RssFixed, RssOther}

\* Settings as /set writes them: the merged record with one toggle changed.
SettingsInputs == {[get_combined_feed_settings(None) EXCEPT !.link_only = Some(TRUE)]}

Init ==
    /\ feeds = EmptyMap
    /\ subscribers = EmptyMap
    /\ file = EmptyMap
    /\ poisoned = FALSE
    /\ now = 0
    /\ last = NoCall
    /\ qfeeds = EmptyMap
    /\ notifies = {}
    /\ counter = 0
    /\ tasks = <<>>
    /\ running = TRUE
    /\ ev = NoEvent
    /\ down = EmptyMap
    /\ hasher = [finished |-> FALSE, value |-> <<0, 0, 0, 0>>, panic |-> None]
    /\ writes = <<>>

\* n subscriber identifiers: 7, 9001, 9002, ...
SubscribersUpTo(n) == {7} \cup {9000 + i : i \in 1..(n - 1)}

NextSubUnsub ==
    \/ \E s \in SubscribersUpTo(MaxSubscribers), url \in Urls : Subscribe(s, url, RssFixed)
    \/ \E s \in SubscribersUpTo(MaxSubscribers), url \in Urls : Unsubscribe(s, url)

\* Subscribe and unsubscribe calls only, from the empty store.
SpecSubUnsub == Init /\ [][NextSubUnsub]_vars

Next ==
    \/ \E s \in SubscriberIds, url \in Urls : Subscribe(s, url, RssFixed)
    \/ \E s \in SubscriberIds, url \in Urls : Unsubscribe(s, url)
    \/ \E s \in SubscriberIds : DeleteSubscriber(s)
    \/ \E from, to \in SubscriberIds : UpdateSubscriber(from, to)
    \/ \E s \in SubscriberIds, url \in Urls : GetSetting(s, url)
    \/ \E s \in SubscriberIds, url \in Urls, ns \in SettingsInputs : UpdateSetting(s, url, ns)
    \/ \E url \in Urls : Update(url, RssOther)

\* Every store operation, with every argument, from the empty store.
Spec == Init /\ [][Next]_vars

(***************************************************************************)
(* Change detection: one subscriber, one feed, fetches of up to MaxItems   *)
(* different items.                                                        *)
(***************************************************************************)
ItemWithId(d) == Item(Some(<<d>>), None, None)

\* Items "1", "2", "3" and an item without id whose title hashes like "3".
ItemPool == {ItemWithId(1), ItemWithId(2), ItemWithId(3), Item(None, Some(<<3>>), None)}

\* The sequences of at most n different items of pool.
FetchesOf(pool, n) ==
    UNION {{o \in [1..k -> pool] : \A i, j \in 1..k : o[i] = o[j] => i = j} : k \in 0..n}

\* Every fetch under the title "a" without TTL; the fetches of at most one item
\* also under the title "b" with a TTL of one minute.
RssUpdateInputs ==
    {Rss("a", None, items) : items \in FetchesOf(ItemPool, MaxItems)}
        \cup {Rss("b", Some(1), items) : items \in FetchesOf(ItemPool, 1)}

NextUpdate ==
    \/ \E rss \in RssUpdateInputs : Subscribe(42, UrlA, rss)
    \/ \E rss \in RssUpdateInputs : Update(UrlA, rss)
    \/ Unsubscribe(42, UrlA)

SpecUpdate == Init /\ [][NextUpdate]_vars

\* Fetches of one or two of five items with ids, for feeds that shrink.
RssShrinkInputs ==
    {Rss("a", None, items) :
        items \in FetchesOf({ItemWithId(1), ItemWithId(2), ItemWithId(3),
                             ItemWithId(4), ItemWithId(5)}, 2)}

NextShrink ==
    \/ \E rss \in RssShrinkInputs : Subscribe(42, UrlA, rss)
    \/ \E rss \in RssShrinkInputs : Update(UrlA, rss)
    \/ Unsubscribe(42, UrlA)

SpecShrink == Init /\ [][NextShrink]_vars

(***************************************************************************)
(* The fetcher (src/fetcher.rs): the due-queue, the throttle, the scheduler *)
(* loop and the fetch-and-notify cycles it spawns.  Time is not measured:   *)
(* a timer of the queue expires at some moment after it was set, and a     *)
(* fetch, a send or a sleep ends at some later moment.                     *)
(***************************************************************************)
\* The most cycles in flight at once.
MaxTasks == 2

\* The most messages format_large_msg splits one Items update into.
MaxMsgs == 2

\* min_interval of start(), in seconds: the tick period and the throttle's pieces.
MinInterval == 3

\* max_interval of start(), in seconds.
MaxInterval == 50

\* The attempts of push_message for one subscriber and one message.
MaxAttempts == 3

\* The down time, in days, after which the subscribers are told.
FiveDays == 5

\* What the model keeps of a Feed cloned by all_feeds(): the fields that steer the
\* cycle (the title and the rest only go into the text of the messages).
Snapshot(feed) == [link |-> feed.link, subscribers |-> feed.subscribers]

\* ttl * 60 in u32, for a ttl below 2^31: the two 16-bit halves of the product
\* modulo 2^32, and whether the product left the width.
Mul60(ttl) ==
    LET lo == (ttl % 65536) * 60
        hi == (ttl \div 65536) * 60 + lo \div 65536
    IN  [hi |-> hi % 65536, lo |-> lo % 65536, overflow |-> hi >= 65536]

\* `ttl * 60` of the feed leaves the width of u32: the build with overflow
\* checks panics there, the build without them wraps.
Overflows(feed) == feed.ttl # None /\ Mul60(feed.ttl[1]).overflow

\* The delay start() gives a feed, in seconds, with the product wrapped
\* (min_interval and max_interval are below 2^16).
FeedInterval(feed) ==
    LET base == IF feed.ttl = None THEN [hi |-> 0, lo |-> 0] ELSE Mul60(feed.ttl[1])
    IN  (IF base.hi > 0 THEN MaxInterval
         ELSE Min(Max(base.lo, MinInterval), MaxInterval)) - 1

\* A timer of the DelayQueue.
Timer(link, delay) == [link |-> link, delay |-> delay, expired |-> FALSE]

\* enqueue without the test for a URL that is already queued.
enqueue_Always(qf, nt, feed, delay) ==
    [feeds |-> MapInsert(qf, feed.link, feed),
     notifies |-> nt \cup {Timer(feed.link, delay)}, ret |-> TRUE]

\* FetchQueue::enqueue on the queue (qf = feeds, nt = notifies).
enqueue(qf, nt, feed, delay) ==
    LET exists == feed.link \in DOMAIN qf IN
    IF ~exists
    THEN [feeds |-> MapInsert(qf, feed.link, feed),
          notifies |-> nt \cup {Timer(feed.link, delay)}, ret |-> TRUE]
    ELSE [feeds |-> qf, notifies |-> nt, ret |-> FALSE]

\* FetchQueue::next when the timer e has expired: the feed stored under its link is
\* removed and handed out; a link without stored feed panics (unwrap).
next(qf, nt, e) ==
    IF e.link \notin DOMAIN qf
    THEN [feeds |-> qf, notifies |-> nt \ {e}, ret |-> None, panic |-> TRUE]
    ELSE [feeds |-> MapRemove(qf, e.link), notifies |-> nt \ {e},
          ret |-> Some(qf[e.link]), panic |-> FALSE]

\* The loop of the tick over all_feeds(), from the i-th feed on.
RECURSIVE EnqueueAll(_, _, _, _, _)
EnqueueAll(qf, nt, fs, order, i) ==
    IF i > Len(order) THEN [feeds |-> qf, notifies |-> nt]
    ELSE LET r == enqueue(qf, nt, Snapshot(fs[order[i]]), FeedInterval(fs[order[i]]))
         IN  EnqueueAll(r.feeds, r.notifies, fs, order, i + 1)

\* acquire that hands out the counter itself as the slot.
acquire_NoModulo(c) == [n |-> c, counter |-> c + 1]

\* Throttle::acquire: fetch_add on the counter, the slot is the old value modulo
\* pieces.  (The counter counts the cycles in flight and stays far from the
\* width of usize.)
acquire(c) == [n |-> c % MinInterval, counter |-> c + 1]

\* A drop that gives nothing back.
drop_Forget(c) == c

\* Opportunity::drop: fetch_sub on the counter.
drop(c) == c - 1

\* chat_is_unavailable on a description, given as the set of phrases it contains.
chat_is_unavailable(s) ==
    \E phrase \in {"Forbidden", "chat not found", "have no rights",
                   "need administrator rights"} : phrase \in s

AnswerOk == [ok |-> TRUE]

\* MethodCall::RequestError { description, migrate_to_chat_id, retry_after }
RequestError(description, migrate_to_chat_id, retry_after) ==
    [ok |-> FALSE, request |-> TRUE, description |-> description,
     migrate_to_chat_id |-> migrate_to_chat_id, retry_after |-> retry_after]

\* Any other MethodCall error.
NetworkError == [ok |-> FALSE, request |-> FALSE]

\* The arm of the match of push_message that takes the answer.
AnswerKind(a) ==
    IF a.ok THEN "ok"
    ELSE IF a.request /\ chat_is_unavailable(a.description) THEN "unavailable"
    ELSE IF a.request /\ a.migrate_to_chat_id # None THEN "migrated"
    ELSE IF a.request /\ a.retry_after # None THEN "retry_after"
    ELSE "error"

\* The answers of the channel to a send; a migration names an identifier the
\* message was not addressed to before.
Answers(task) ==
    {AnswerOk, NetworkError,
     RequestError({"Forbidden"}, None, None),
     RequestError({}, None, Some(1)),
     RequestError({}, None, None)}
        \cup {RequestError({}, Some(id), None) :
                 id \in SubscriberIds \ (task.olds \cup {task.subscriber})}
        \cup {RequestError({"chat not found"}, Some(id), Some(1)) : id \in SubscriberIds}

\* A cycle spawned for the feed handed out by the queue, holding its Opportunity.
\* lock tells whether it is blocked in db.lock() ("waiting"), holds the
\* MutexGuard of the statement it runs ("held"), or neither ("none").
NewTask(feed, n) ==
    [feed |-> feed, n |-> n, pc |-> "wait", msgs |-> 0, order |-> <<>>, i |-> 0,
     subscriber |-> 0, attempt |-> 0, olds |-> {}, lock |-> "none"]

\* A step of the fetcher: its kind, the feed, the identifier that answered, the
\* attempt, the arm that took the answer, what came of it ("retry" and "sleep"
\* stay in push_message, "next" returns Ok to a cycle with more to send, "ok",
\* "err" and "panic" end the cycle), the identifier a send went out to in this
\* step, and the identifiers this message was migrated away from.
Event(type, link, to, attempt, answer, outcome, sent, olds) ==
    [type |-> type, link |-> link, to |-> to, attempt |-> attempt, answer |-> answer,
     outcome |-> outcome, sent |-> sent, olds |-> olds]

RemoveAt(s, i) == SubSeq(s, 1, i - 1) \o SubSeq(s, i + 1, Len(s))

\* The step makes no store call.
NoStoreCall ==
    /\ last' = NoCall
    /\ UNCHANGED <<feeds, subscribers, file, poisoned>>

\* The cycle i ends: its future is dropped, and its Opportunity with it.
EndTask(i) ==
    /\ tasks' = RemoveAt(tasks, i)
    /\ counter' = drop(counter)

\* The cycle i locks a poisoned store: db.lock().unwrap() panics.
LockPanics(i, type) ==
    /\ poisoned
    /\ EndTask(i)
    /\ ev' = Event(type, tasks[i].feed.link, tasks[i].subscriber, tasks[i].attempt,
                   "", "panic", None, tasks[i].olds)
    /\ NoStoreCall

\* The tick of the interval: every stored feed is enqueued with its delay.  The
\* select is biased to the queue, so a tick is taken when no timer has expired.
Tick ==
    /\ running
    /\ LockFree(0)
    /\ ~\E e \in notifies : e.expired
    /\ IF poisoned
       THEN /\ running' = FALSE
            /\ ev' = Event("tick", None, 0, 0, "", "panic", None, {})
            /\ UNCHANGED <<qfeeds, notifies>>
       ELSE \/ \E order \in Orders(DOMAIN feeds) :
                   LET r == EnqueueAll(qfeeds, notifies, feeds, order, 1) IN
                   /\ qfeeds' = r.feeds
                   /\ notifies' = r.notifies
                   /\ ev' = Event("tick", None, 0, 0, "", "ok", None, {})
                   /\ UNCHANGED running
            \/ /\ \E f \in DOMAIN feeds : Overflows(feeds[f])
               /\ running' = FALSE
               /\ ev' = Event("tick", None, 0, 0, "", "panic", None, {})
               /\ UNCHANGED <<qfeeds, notifies>>
    /\ NoStoreCall
    /\ UNCHANGED <<now, counter, tasks, down, hashVars>>

\* The delay of a timer runs out.
Expire(e) ==
    /\ e \in notifies /\ ~e.expired
    /\ notifies' = (notifies \ {e}) \cup {[e EXCEPT !.expired = TRUE]}
    /\ UNCHANGED <<storeVars, now, qfeeds, counter, tasks, running, ev, down, hashVars>>

\* queue.next() hands out a due feed: an Opportunity is acquired and the cycle
\* is spawned (while fewer than cap cycles are in flight).
Dequeue(e, cap) ==
    /\ running
    /\ e \in notifies /\ e.expired
    /\ Len(tasks) < cap
    /\ LET r == next(qfeeds, notifies, e)
           a == acquire(counter)
       IN  /\ qfeeds' = r.feeds
           /\ notifies' = r.notifies
           /\ IF r.panic
              THEN /\ running' = FALSE
                   /\ ev' = Event("dequeue", e.link, 0, 0, "", "panic", None, {})
                   /\ UNCHANGED <<counter, tasks>>
              ELSE /\ tasks' = Append(tasks, NewTask(r.ret[1], a.n))
                   /\ counter' = a.counter
                   /\ ev' = Event("dequeue", e.link, 0, 0, "", "ok", None, {})
                   /\ UNCHANGED running
    /\ NoStoreCall
    /\ UNCHANGED <<now, down, hashVars>>

\* opportunity.wait() returns.
Wait(i) ==
    /\ i \in DOMAIN tasks /\ tasks[i].pc = "wait"
    /\ tasks' = [tasks EXCEPT ![i].pc = "fetch"]
    /\ NoStoreCall
    /\ ev' = Event("wait", tasks[i].feed.link, 0, 0, "", "next", None, {})
    /\ UNCHANGED <<now, qfeeds, notifies, counter, running, down, hashVars>>

\* The await of cycle i (the fetch, or the send before) has returned and the
\* cycle calls db.lock() for its next store call.
Request(i) ==
    /\ i \in DOMAIN tasks /\ tasks[i].pc \in {"fetch", "push"}
    /\ tasks[i].lock = "none"
    /\ tasks' = [tasks EXCEPT ![i].lock = "waiting"]
    /\ NoStoreCall
    /\ ev' = Event("request", tasks[i].feed.link, 0, 0, "", "next", None, {})
    /\ UNCHANGED <<now, qfeeds, notifies, counter, running, down, hashVars>>

\* db.lock() of cycle i returns: the guard when the lock is sound, else the
\* PoisonError its unwrap() panics on.
Acquire(i) ==
    /\ i \in DOMAIN tasks /\ tasks[i].lock = "waiting"
    /\ LockFree(i)
    /\ IF poisoned
       THEN LockPanics(i, "acquire")
       ELSE /\ tasks' = [tasks EXCEPT ![i].lock = "held"]
            /\ NoStoreCall
            /\ ev' = Event("acquire", tasks[i].feed.link, 0, 0, "", "next", None, {})
            /\ UNCHANGED counter
    /\ UNCHANGED <<now, qfeeds, notifies, running, down, hashVars>>

\* The number of updates of the given type.
CountType(updates, type) == Cardinality({k \in 1..Len(updates) : updates[k].type = type})

\* The cycle i goes on to push `msgs` messages, or ends Ok when there is none.
StartPushing(i, msgs, type) ==
    IF msgs = 0
    THEN /\ EndTask(i)
         /\ ev' = Event(type, tasks[i].feed.link, 0, 0, "", "ok", None, {})
    ELSE /\ \E order \in Orders(tasks[i].feed.subscribers) :
                tasks' = [tasks EXCEPT ![i] =
                             [@ EXCEPT !.pc = "push", !.msgs = msgs, !.order = order, !.i = 1,
                                       !.lock = "none"]]
         /\ ev' = Event(type, tasks[i].feed.link, 0, 0, "", "next", None, {})
         /\ UNCHANGED counter

\* The failed fetches of link with one more at day t; notice tells that it
\* decided on an escalation notice.
Failed(h, link, t, notice) ==
    LET old == IF link \in DOMAIN h THEN h[link]
               ELSE [since |-> t, fetched |-> t, notices |-> <<>>, first |-> None]
    IN  [old EXCEPT !.fetched = t,
                    !.notices = IF notice THEN Append(@, t) ELSE @,
                    !.first = IF notice \/ @ # None THEN @ ELSE Some(t)]

\* The history after a successful update or reset of link: no failed fetch
\* since.
Cleared(h, link, done) ==
    IF done /\ link \in DOMAIN h THEN [h EXCEPT ![link].first = None] ELSE h

\* pull_feed returned the content rss: update is called, and the Items update is
\* formatted into k messages.
FetchOk(i, rss, k) ==
    /\ i \in DOMAIN tasks /\ tasks[i].pc = "fetch"
    /\ LockFree(i)
    /\ \/ LockPanics(i, "fetch") /\ UNCHANGED down
       \/ /\ ~poisoned
          /\ LET link == tasks[i].feed.link
                 r == update(feeds, subscribers, link, rss)
             IN  /\ StoreCall("update", <<link, Len(rss.items)>>, r)
                 /\ StartPushing(i, k * CountType(r.ret, "Items") + CountType(r.ret, "Title"),
                                 "fetch")
                 /\ down' = Cleared(down, link, gen_hash(link) \in DOMAIN feeds)
    /\ UNCHANGED <<now, qfeeds, notifies, running, hashVars>>

\* pull_feed failed: the down time is read or stamped; when it is past five
\* days the cycle goes on to reset it, else it ends.
FetchErr(i) ==
    /\ i \in DOMAIN tasks /\ tasks[i].pc = "fetch"
    /\ LockFree(i)
    /\ \/ LockPanics(i, "fetch_error") /\ UNCHANGED down
       \/ /\ ~poisoned
          /\ LET link == tasks[i].feed.link
                 r == get_or_update_down_time(feeds, subscribers, link, now)
             IN  /\ StoreCall("get_or_update_down_time", <<link>>, r)
                 /\ IF r.ret # None /\ r.ret[1] > FiveDays
                    THEN /\ tasks' = [tasks EXCEPT ![i] =
                                        [@ EXCEPT !.pc = "reset", !.lock = "none"]]
                         /\ ev' = Event("fetch_error", link, 0, 0, "", "next", None, {})
                         /\ UNCHANGED counter
                    ELSE StartPushing(i, 0, "fetch_error")
                 /\ down' = MapInsert(down, link, Failed(down, link, now, FALSE))
    /\ UNCHANGED <<now, qfeeds, notifies, running, hashVars>>

\* Past five days of down time: the stamp is reset (whether the feed is still
\* stored or not) and the notice is pushed to the subscribers.
ResetAndNotify(i) ==
    /\ i \in DOMAIN tasks /\ tasks[i].pc = "reset"
    /\ LockFree(i)
    /\ \/ LockPanics(i, "notice") /\ UNCHANGED down
       \/ /\ ~poisoned
          /\ LET link == tasks[i].feed.link
                 r == reset_down_time(feeds, subscribers, link)
             IN  /\ StoreCall("reset_down_time", <<link>>, r)
                 /\ StartPushing(i, 1, "notice")
                 /\ down' = Cleared(MapInsert(down, link, Failed(down, link, now, TRUE)),
                                    link, r.ret)
    /\ UNCHANGED <<now, qfeeds, notifies, running, hashVars>>

\* push_message returned Ok for the current subscriber of cycle i: the next
\* subscriber, the next message, or the end of the cycle.
Advance(i, type, answer) ==
    LET task == tasks[i]
        more == task.i < Len(task.order) \/ task.msgs > 1
    IN  /\ IF more
           THEN /\ tasks' = [tasks EXCEPT ![i] =
                     IF task.i < Len(task.order)
                     THEN [@ EXCEPT !.pc = "push", !.i = @ + 1]
                     ELSE [@ EXCEPT !.pc = "push", !.i = 1, !.msgs = @ - 1]]
                /\ UNCHANGED counter
           ELSE EndTask(i)
        /\ ev' = Event(type, task.feed.link, task.subscriber, task.attempt, answer,
                       IF more THEN "next" ELSE "ok", None, task.olds)

\* A push that keeps the guard of its get_setting statement into the send.
Push_KeepGuard(i) ==
    /\ i \in DOMAIN tasks /\ tasks[i].pc = "push"
    /\ LockFree(i)
    /\ \/ LockPanics(i, "push")
       \/ /\ ~poisoned
          /\ LET task == tasks[i]
                 s == task.order[task.i]
                 r == get_setting(feeds, subscribers, s, task.feed.link)
             IN  IF r.panic \/ r.ret = None
                 THEN /\ StoreCall("get_setting", <<s, task.feed.link>>,
                                   [r EXCEPT !.panic = TRUE])
                      /\ EndTask(i)
                      /\ ev' = Event("push", task.feed.link, s, 0, "", "panic", None, {})
                 ELSE /\ StoreCall("get_setting", <<s, task.feed.link>>, r)
                      /\ tasks' = [tasks EXCEPT ![i] =
                             [@ EXCEPT !.pc = "send", !.subscriber = s, !.attempt = 1,
                                       !.olds = {}, !.lock = "held"]]
                      /\ ev' = Event("push", task.feed.link, s, 1, "", "retry", Some(s), {})
                      /\ UNCHANGED counter
    /\ UNCHANGED <<now, qfeeds, notifies, running, down, hashVars>>

\* The next subscriber of the snapshot: its settings are read and the first
\* attempt goes out.  The guard of the lock is alive when get_setting panics and
\* when its None is unwrapped: both poison the lock.
Push(i) ==
    /\ i \in DOMAIN tasks /\ tasks[i].pc = "push"
    /\ LockFree(i)
    /\ \/ LockPanics(i, "push")
       \/ /\ ~poisoned
          /\ LET task == tasks[i]
                 s == task.order[task.i]
                 r == get_setting(feeds, subscribers, s, task.feed.link)
             IN  IF r.panic \/ r.ret = None
                 THEN /\ StoreCall("get_setting", <<s, task.feed.link>>,
                                   [r EXCEPT !.panic = TRUE])
                      /\ EndTask(i)
                      /\ ev' = Event("push", task.feed.link, s, 0, "", "panic", None, {})
                 ELSE /\ StoreCall("get_setting", <<s, task.feed.link>>, r)
                      /\ tasks' = [tasks EXCEPT ![i] =
                             [@ EXCEPT !.pc = "send", !.subscriber = s, !.attempt = 1,
                                       !.olds = {}, !.lock = "none"]]
                      /\ ev' = Event("push", task.feed.link, s, 1, "", "retry", Some(s), {})
                      /\ UNCHANGED counter
    /\ UNCHANGED <<now, qfeeds, notifies, running, down, hashVars>>

\* A retry loop without the bound of three.
Retry_NoBound(i, to, olds, answer) ==
    LET task == tasks[i] IN
    /\ tasks' = [tasks EXCEPT ![i] =
            [@ EXCEPT !.pc = "send", !.subscriber = to, !.attempt = @ + 1,
                      !.olds = olds]]
    /\ ev' = Event("answer", task.feed.link, task.subscriber, task.attempt, answer,
                   "retry", Some(to), olds)
    /\ UNCHANGED counter

\* `continue 'retry` towards the identifier `to`: the next attempt goes out, or
\* the three attempts are used up and push_message returns Ok.
Retry(i, to, olds, answer) ==
    LET task == tasks[i] IN
    IF task.attempt < MaxAttempts
    THEN /\ tasks' = [tasks EXCEPT ![i] =
                [@ EXCEPT !.pc = "send", !.subscriber = to, !.attempt = @ + 1,
                          !.olds = olds]]
         /\ ev' = Event("answer", task.feed.link, task.subscriber, task.attempt, answer,
                        "retry", Some(to), olds)
         /\ UNCHANGED counter
    ELSE Advance(i, "exhausted", answer)

\* A store call of push_message panicked under the lock: the cycle unwinds.
CallPanics(i, answer) ==
    /\ EndTask(i)
    /\ ev' = Event("answer", tasks[i].feed.link, tasks[i].subscriber, tasks[i].attempt,
                   answer, "panic", None, tasks[i].olds)

\* The channel answers the send of cycle i with a.
Answer(i, a) ==
    /\ i \in DOMAIN tasks /\ tasks[i].pc = "send"
    /\ a \in Answers(tasks[i])
    /\ LET task == tasks[i]
           kind == AnswerKind(a)
       IN  CASE kind = "ok" ->
                  /\ Advance(i, "answer", kind)
                  /\ NoStoreCall
             [] kind = "unavailable" ->
                  \/ LockPanics(i, "answer")
                  \/ /\ ~poisoned
                     /\ LockFree(i)
                     /\ \E order \in Orders(EntryOf(subscribers, task.subscriber)) :
                          LET r == delete_subscriber(feeds, subscribers, task.subscriber, order)
                          IN  /\ StoreCall("delete_subscriber", <<task.subscriber>>, r)
                              /\ IF r.panic THEN CallPanics(i, kind)
                                 ELSE Advance(i, "answer", kind)
             [] kind = "migrated" ->
                  \/ LockPanics(i, "answer")
                  \/ /\ ~poisoned
                     /\ LockFree(i)
                     /\ \E order \in Orders(EntryOf(subscribers, task.subscriber)) :
                          LET to == a.migrate_to_chat_id[1]
                              r == update_subscriber(feeds, subscribers, task.subscriber, to,
                                                     order)
                          IN  /\ StoreCall("update_subscriber", <<task.subscriber, to>>, r)
                              /\ IF r.panic THEN CallPanics(i, kind)
                                 ELSE Retry(i, to, task.olds \cup {task.subscriber}, kind)
             [] kind = "retry_after" ->
                  /\ tasks' = [tasks EXCEPT ![i].pc = "sleep"]
                  /\ ev' = Event("answer", task.feed.link, task.subscriber, task.attempt,
                                 kind, "sleep", None, task.olds)
                  /\ NoStoreCall
                  /\ UNCHANGED counter
             [] kind = "error" ->
                  /\ EndTask(i)
                  /\ ev' = Event("answer", task.feed.link, task.subscriber, task.attempt,
                                 kind, "err", None, task.olds)
                  /\ NoStoreCall
    /\ UNCHANGED <<now, qfeeds, notifies, running, down, hashVars>>

\* delay_for(retry_after) returns and the loop continues.
Wake(i) ==
    /\ i \in DOMAIN tasks /\ tasks[i].pc = "sleep"
    /\ Retry(i, tasks[i].subscriber, tasks[i].olds, "retry_after")
    /\ NoStoreCall
    /\ UNCHANGED <<now, qfeeds, notifies, running, down, hashVars>>

\* The days the clock of the down-time specifications runs.
MaxDays == 14

\* A day passes on the system clock.
Elapse ==
    /\ now < MaxDays
    /\ now' = now + 1
    /\ NoStoreCall
    /\ ev' = NoEvent
    /\ UNCHANGED <<qfeeds, notifies, counter, tasks, running, down, hashVars>>

\* The fetched content with another TTL and nothing else new.
RssTtl == Rss("a", Some(1), <<Item(Some(<<1>>), None, None)>>)

\* The scheduler: subscriber 7 subscribes and unsubscribes, the feeds are
\* enqueued, handed out and fetched; no fetch brings an update.
NextQueue ==
    \/ \E url \in Urls : Subscribe(7, url, RssFixed)
    \/ \E url \in Urls : Unsubscribe(7, url)
    \/ Tick
    \/ \E e \in notifies : Expire(e)
    \/ \E e \in notifies : Dequeue(e, 2)
    \/ \E i \in DOMAIN tasks : Wait(i)
    \/ \E i \in DOMAIN tasks : FetchOk(i, RssTtl, 1)

SpecQueue == Init /\ [][NextQueue]_vars

\* The cycles in flight at once in the specification of the throttle.
MaxAcquired == 5

\* The throttle: one feed, whose cycles overlap; every fetch fails.
NextThrottle ==
    \/ Subscribe(7, UrlA, RssFixed)
    \/ Tick
    \/ \E e \in notifies : Expire(e)
    \/ \E e \in notifies : Dequeue(e, MaxAcquired)
    \/ \E i \in DOMAIN tasks : Wait(i)
    \/ \E i \in DOMAIN tasks : FetchErr(i)

SpecThrottle == Init /\ [][NextThrottle]_vars

\* TTLs a feed can announce: none, small ones, the largest whose product with
\* 60 fits u32, the next one, and the largest of the model.
TtlInputs == {None, Some(0), Some(1), Some(71582788), Some(71582789), Some(2147483647)}

\* The rescan: subscriber 7 subscribes, the stored feeds take the TTL of their
\* last fetch, and the tick offers them to the queue.
NextInterval ==
    \/ \E url \in Urls : Subscribe(7, url, RssFixed)
    \/ \E url \in Urls, ttl \in TtlInputs : Update(url, [RssFixed EXCEPT !.ttl = ttl])
    \/ Tick

SpecInterval == Init /\ [][NextInterval]_vars

\* The store lock under contention: the cycles of one feed, two at a time,
\* block on the lock before their store calls, beside the /sub handler and the
\* tick.
NextLock ==
    \/ Subscribe(7, UrlA, RssFixed)
    \/ Tick
    \/ \E e \in notifies : Expire(e)
    \/ \E e \in notifies : Dequeue(e, 2)
    \/ \E i \in DOMAIN tasks : Wait(i)
    \/ \E i \in DOMAIN tasks : Request(i)
    \/ \E i \in DOMAIN tasks : Acquire(i)
    \/ \E i \in DOMAIN tasks : FetchOk(i, RssOther, 1)
    \/ \E i \in DOMAIN tasks : Push(i)
    \/ \E i \in DOMAIN tasks : Answer(i, AnswerOk)

SpecLock == Init /\ [][NextLock]_vars

\* The holder of the guard runs on to the end of its statement, and a cycle
\* blocked in db.lock() is not passed over for ever once the lock is released
\* again and again.
SpecLockFair ==
    /\ SpecLock
    /\ \A i \in 1..2 :
           /\ SF_vars(Acquire(i))
           /\ WF_vars(FetchOk(i, RssOther, 1))
           /\ WF_vars(Push(i))

\* The fetch of link failed today.
FailedToday(link) == link \in DOMAIN down /\ down[link].fetched = now

\* A feed that is down for days: subscriber 7 subscribes to it, every fetch
\* fails, and once the feed is stored no day passes without a fetch of it.
NextDownTime ==
    \/ Subscribe(7, UrlA, RssFixed)
    \/ Tick
    \/ \E e \in notifies : Expire(e)
    \/ \E e \in notifies : Dequeue(e, 1)
    \/ \E i \in DOMAIN tasks : Wait(i)
    \/ \E i \in DOMAIN tasks : FetchErr(i)
    \/ \E i \in DOMAIN tasks : ResetAndNotify(i)
    \/ \E i \in DOMAIN tasks : Push(i)
    \/ \E i \in DOMAIN tasks : Answer(i, AnswerOk)
    \/ (feeds = EmptyMap \/ FailedToday(UrlA)) /\ Elapse

SpecDownTime == Init /\ [][NextDownTime]_vars

\* The down-time stamp: one stored feed whose fetches fail or succeed as the
\* days pass, one cycle at a time.
NextStamp ==
    \/ Subscribe(7, UrlA, RssFixed)
    \/ Tick
    \/ \E e \in notifies : Expire(e)
    \/ \E e \in notifies : Dequeue(e, 1)
    \/ \E i \in DOMAIN tasks : Wait(i)
    \/ \E i \in DOMAIN tasks : FetchOk(i, RssFixed, 1)
    \/ \E i \in DOMAIN tasks : FetchErr(i)
    \/ \E i \in DOMAIN tasks : ResetAndNotify(i)
    \/ \E i \in DOMAIN tasks : Push(i)
    \/ \E i \in DOMAIN tasks : Answer(i, AnswerOk)
    \/ Elapse

SpecStamp == Init /\ [][NextStamp]_vars

\* The feed that goes away: subscriber 7 subscribes and unsubscribes while the
\* cycles of the feed are queued, fetching or about to send the notice; the
\* fetches fail or bring new content.  A day passes only after a failed fetch,
\* until the down time is past five days.
NextUnknown ==
    \/ Subscribe(7, UrlA, RssFixed)
    \/ Unsubscribe(7, UrlA)
    \/ Tick
    \/ \E e \in notifies : Expire(e)
    \/ \E e \in notifies : Dequeue(e, 1)
    \/ \E i \in DOMAIN tasks : Wait(i)
    \/ \E i \in DOMAIN tasks : FetchOk(i, RssOther, 1)
    \/ \E i \in DOMAIN tasks : FetchErr(i)
    \/ \E i \in DOMAIN tasks : ResetAndNotify(i)
    \/ \E i \in DOMAIN tasks : Push(i)
    \/ \E i \in DOMAIN tasks : Answer(i, AnswerOk)
    \/ FailedToday(UrlA) /\ now <= FiveDays /\ Elapse

SpecUnknown == Init /\ [][NextUnknown]_vars

\* The contents of a feed that grows and shrinks: no item; item 1; items 2, 3
\* and 4; items 5 and 1.  (They differ in length, so the length tells them
\* apart.)
RssNone == Rss("a", None, <<>>)

RssOne == Rss("a", None, <<Item(Some(<<1>>), None, None)>>)

RssThree ==
    Rss("a", None,
        <<Item(Some(<<2>>), None, None), Item(Some(<<3>>), None, None),
          Item(Some(<<4>>), None, None)>>)

RssTwo == Rss("a", None, <<Item(Some(<<5>>), None, None), Item(Some(<<1>>), None, None)>>)

\* Fetching the same content again: subscriber 7 subscribes to the empty feed,
\* whose cycles, two at a time, fetch one of the three later contents.
NextRefetch ==
    \/ Subscribe(7, UrlA, RssNone)
    \/ Tick
    \/ \E e \in notifies : Expire(e)
    \/ \E e \in notifies : Dequeue(e, MaxTasks)
    \/ \E i \in DOMAIN tasks : Wait(i)
    \/ \E i \in DOMAIN tasks, rss \in {RssOne, RssThree, RssTwo} : FetchOk(i, rss, 1)
    \/ \E i \in DOMAIN tasks : Push(i)
    \/ \E i \in DOMAIN tasks : Answer(i, AnswerOk)

SpecRefetch == Init /\ [][NextRefetch]_vars

(***************************************************************************)
(* Size64Hasher, the hasher of the store's maps.  A u64 is written as its  *)
(* four 16-bit limbs, the most significant first; an i64 as its sign and   *)
(* the limbs of its magnitude.                                             *)
(***************************************************************************)
Limb == 65536

\* x + y on 64 bits: the limbs of the sum and the carry out of bit 63.
AddU64(x, y) ==
    LET s4 == x[4] + y[4]
        s3 == x[3] + y[3] + s4 \div Limb
        s2 == x[2] + y[2] + s3 \div Limb
        s1 == x[1] + y[1] + s2 \div Limb
    IN  [limbs |-> <<s1 % Limb, s2 % Limb, s3 % Limb, s4 % Limb>>, carry |-> s1 \div Limb]

\* `i as u64`: the bits of the two's complement of i, which for a negative i
\* are those of its magnitude inverted, plus one.
AsU64(i) ==
    IF ~i.neg THEN i.mag
    ELSE AddU64(<<Limb - 1 - i.mag[1], Limb - 1 - i.mag[2],
                  Limb - 1 - i.mag[3], Limb - 1 - i.mag[4]>>, <<0, 0, 0, 1>>).limbs

\* Hasher::finish
finish(h) == h.value

\* Hasher::write, which the default write_u8, write_u32, write_usize, ... of
\* the trait all call with the bytes of their argument.
write(h, bytes) == [h EXCEPT !.panic = Some("only support u64 and i64")]

\* Hasher::write_u64
write_u64(h, i) ==
    IF h.finished
    THEN [h EXCEPT !.panic = Some("this is a special hasher, do not write twice")]
    ELSE [h EXCEPT !.value = i, !.finished = TRUE]

\* A write_i64 that hashes the magnitude.
write_i64_Abs(h, i) == write_u64(h, i.mag)

\* Hasher::write_i64
write_i64(h, i) == write_u64(h, AsU64(i))

\* The writes a hasher takes before it is finished with.
MaxWrites == 2

\* 0, 42, 2^16, 2^63, 2^64 - 42 and 2^64 - 1.
U64Inputs ==
    {<<0, 0, 0, 0>>, <<0, 0, 0, 42>>, <<0, 0, 1, 0>>, <<32768, 0, 0, 0>>,
     <<65535, 65535, 65535, 65494>>, <<65535, 65535, 65535, 65535>>}

Int64(neg, mag) == [neg |-> neg, mag |-> mag]

\* 0, 42, -42, -1, i64::MAX and i64::MIN.
I64Inputs ==
    {Int64(FALSE, <<0, 0, 0, 0>>), Int64(FALSE, <<0, 0, 0, 42>>),
     Int64(TRUE, <<0, 0, 0, 42>>), Int64(TRUE, <<0, 0, 0, 1>>),
     Int64(FALSE, <<32767, 65535, 65535, 65535>>), Int64(TRUE, <<32768, 0, 0, 0>>)}

\* The writes of other types, which reach write() through the trait's
\* defaults, with the bytes they pass.
OtherWrites ==
    {[op |-> "write", bytes |-> <<1, 2>>], [op |-> "write_u8", bytes |-> <<0>>],
     [op |-> "write_u32", bytes |-> <<42, 0, 0, 0>>],
     [op |-> "write_usize", bytes |-> <<42, 0, 0, 0, 0, 0, 0, 0>>]}

\* The hasher has not panicked and may be written to.
Alive == hasher.panic = None /\ Len(writes) < MaxWrites

WriteU64(i) ==
    /\ Alive
    /\ hasher' = write_u64(hasher, i)
    /\ writes' = Append(writes, [op |-> "write_u64", arg |-> Int64(FALSE, i)])
    /\ UNCHANGED <<storeVars, now, fetcherVars, down>>

WriteI64(i) ==
    /\ Alive
    /\ hasher' = write_i64(hasher, i)
    /\ writes' = Append(writes, [op |-> "write_i64", arg |-> i])
    /\ UNCHANGED <<storeVars, now, fetcherVars, down>>

WriteOther(w) ==
    /\ Alive
    /\ hasher' = write(hasher, w.bytes)
    /\ writes' = Append(writes, [op |-> w.op, arg |-> Int64(FALSE, <<0, 0, 0, 0>>)])
    /\ UNCHANGED <<storeVars, now, fetcherVars, down>>

NextHasher ==
    \/ \E i \in U64Inputs : WriteU64(i)
    \/ \E i \in I64Inputs : WriteI64(i)
    \/ \E w \in OtherWrites : WriteOther(w)

SpecHasher == Init /\ [][NextHasher]_vars

\* The rescan for ever: one feed with two subscribers, of whom 9001 may leave;
\* the feed is enqueued at every tick, handed out, fetched and delivered, one
\* cycle at a time.
NextRescan ==
    \/ \E s \in SubscriberIds : Subscribe(s, UrlA, RssFixed)
    \/ Unsubscribe(9001, UrlA)
    \/ Tick
    \/ \E e \in notifies : Expire(e)
    \/ \E e \in notifies : Dequeue(e, 1)
    \/ \E i \in DOMAIN tasks : Wait(i)
    \/ \E i \in DOMAIN tasks : FetchOk(i, RssOther, 1)
    \/ \E i \in DOMAIN tasks : Push(i)
    \/ \E i \in DOMAIN tasks : Answer(i, AnswerOk)

SpecRescan == Init /\ [][NextRescan]_vars

\* The interval timer keeps firing, the delays of the queue run out, the loop
\* takes what select_biased! offers it, and a spawned cycle is polled until it
\* ends: its delay, its fetch and its sends all return.
SpecRescanFair ==
    /\ SpecRescan
    /\ WF_vars(Tick)
    /\ WF_vars(\E e \in notifies : Expire(e))
    /\ WF_vars(\E e \in notifies : Dequeue(e, 1))
    /\ WF_vars(\E i \in DOMAIN tasks : Wait(i))
    /\ WF_vars(\E i \in DOMAIN tasks : FetchOk(i, RssOther, 1))
    /\ WF_vars(\E i \in DOMAIN tasks : Push(i))
    /\ WF_vars(\E i \in DOMAIN tasks : Answer(i, AnswerOk))

\* Delivery: the cycles of one feed with two subscribers, one at a time, beside
\* the /sub and /unsub handlers; the fetch brings a new item and a new title.
NextDelivery ==
    \/ \E s \in SubscriberIds : Subscribe(s, UrlA, RssFixed)
    \/ \E s \in SubscriberIds : Unsubscribe(s, UrlA)
    \/ Tick
    \/ \E e \in notifies : Expire(e)
    \/ \E e \in notifies : Dequeue(e, 1)
    \/ \E i \in DOMAIN tasks : Wait(i)
    \/ \E i \in DOMAIN tasks, k \in 1..MaxMsgs : FetchOk(i, RssOther, k)
    \/ \E i \in DOMAIN tasks : Push(i)
    \/ \E i \in DOMAIN tasks : \E a \in Answers(tasks[i]) : Answer(i, a)
    \/ \E i \in DOMAIN tasks : Wake(i)

SpecDelivery == Init /\ [][NextDelivery]_vars

\* The same with a channel that delivers or asks to wait, and nothing else.
NextUnsubRace ==
    \/ \E s \in SubscriberIds : Subscribe(s, UrlA, RssFixed)
    \/ \E s \in SubscriberIds : Unsubscribe(s, UrlA)
    \/ Tick
    \/ \E e \in notifies : Expire(e)
    \/ \E e \in notifies : Dequeue(e, 1)
    \/ \E i \in DOMAIN tasks : Wait(i)
    \/ \E i \in DOMAIN tasks, k \in 1..MaxMsgs : FetchOk(i, RssOther, k)
    \/ \E i \in DOMAIN tasks : Push(i)
    \/ \E i \in DOMAIN tasks :
           \E a \in {AnswerOk, RequestError({}, None, Some(1))} : Answer(i, a)
    \/ \E i \in DOMAIN tasks : Wake(i)

SpecUnsubRace == Init /\ [][NextUnsubRace]_vars

\* The fetched content with another title and nothing else new.
RssTitle == Rss("b", None, <<Item(Some(<<1>>), None, None)>>)

\* The answers of a channel that delivers, has lost the chat, or has moved it.
GoneOrMoved(task) ==
    {a \in Answers(task) : AnswerKind(a) \in {"ok", "unavailable", "migrated"}}

\* Two feeds, the one subscribed by 7 and the other by 9001; every cycle tells of
\* a new title, and the channel delivers, has lost the chat, or has moved it.
NextMigration ==
    \/ Subscribe(7, UrlA, RssFixed)
    \/ Subscribe(9001, UrlB, RssFixed)
    \/ Tick
    \/ \E e \in notifies : Expire(e)
    \/ \E e \in notifies : Dequeue(e, 1)
    \/ \E i \in DOMAIN tasks : Wait(i)
    \/ \E i \in DOMAIN tasks : FetchOk(i, RssTitle, 1)
    \/ \E i \in DOMAIN tasks : Push(i)
    \/ \E i \in DOMAIN tasks : \E a \in GoneOrMoved(tasks[i]) : Answer(i, a)

SpecMigration == Init /\ [][NextMigration]_vars

(***************************************************************************)
(* Properties of the store.                                                *)
(***************************************************************************)

\* s is in feed f's subscriber set iff f is in index[s].
IndexInverse ==
    /\ \A f \in DOMAIN feeds : \A s \in feeds[f].subscribers :
           s \in DOMAIN subscribers /\ f \in subscribers[s]
    /\ \A s \in DOMAIN subscribers : \A f \in subscribers[s] :
           f \in DOMAIN feeds /\ s \in feeds[f].subscribers

NoEmptyEntry == \A s \in DOMAIN subscribers : subscribers[s] # {}

NoEmptyFeed == \A f \in DOMAIN feeds : feeds[f].subscribers # {}

\* C1: after any sequence of subscribe and unsubscribe calls from the empty store,
\* the index and the feeds' subscriber sets are inverses of each other, no index
\* entry is empty, and every feed of the store has a subscriber.
C1_SubUnsubInverse == IndexInverse /\ NoEmptyEntry /\ NoEmptyFeed

\* An unsubscribe removed one of two subscriptions of a subscriber while another
\* subscriber keeps the feed that was left.
C1_Witness ==
    /\ last.op = "unsubscribe" /\ last.ret # None
    /\ last.args[1] \in DOMAIN subscribers
    /\ \E f \in DOMAIN feeds : Cardinality(feeds[f].subscribers) = 2
    /\ gen_hash(last.args[2]) \in DOMAIN feeds

\* C2: after any sequence of all store operations the index agrees with every
\* feed's subscriber set; after migrate_subscriber(A, B), index[B] is exactly the
\* set of feeds whose subscriber set contains B.
C2_IndexAgrees ==
    /\ IndexInverse
    /\ (last.op = "update_subscriber" /\ last.ret = TRUE) =>
           subscribers[last.args[2]] =
               {f \in DOMAIN feeds : last.args[2] \in feeds[f].subscribers}

\* C3: for every feed, the key set of its settings map equals its subscriber set.
C3_SettingsKeys ==
    \A f \in DOMAIN feeds : DOMAIN feeds[f].settings = feeds[f].subscribers

\* a has an entry somewhere in the store.
AppearsIn(fs, idx, a) ==
    \/ a \in DOMAIN idx
    \/ \E f \in DOMAIN fs : a \in fs[f].subscribers \/ a \in DOMAIN fs[f].settings

\* What get_setting(b, url) returns after update_subscriber(a, b) equals what
\* get_setting(a, url) returns now, for every feed of a's index entry.
SettingsCarried(a, b, r) ==
    \A url \in Urls : gen_hash(url) \in subscribers[a] =>
        LET before == get_setting(feeds, subscribers, a, url)
            after == get_setting(r.feeds, r.subscribers, b, url)
        IN  /\ ~before.panic /\ ~after.panic
            /\ before.ret # None
            /\ after.ret = before.ret

C9_GetSettingOfNonSubscriber ==
    /\ (last.op = "update_subscriber" /\ last.args = <<7, 9001>> /\ last.ret = TRUE) =>
           \A url \in Urls :
               LET r == get_setting(feeds, subscribers, 7, url) IN
               ~r.panic /\ r.ret = None
    /\ \A s \in SubscriberIds, url \in Urls :
           ~is_subscribed(subscribers, s, url) =>
               LET r == get_setting(feeds, subscribers, s, url) IN
               ~r.panic /\ r.ret = None

\* C10: subscribe(s, url, fetched) returns false and changes nothing when s is
\* already subscribed; otherwise it returns true, s is in the feed's subscriber set
\* and in the index with default settings, a new feed takes its title, TTL and hash
\* list from the fetched content, and an existing feed keeps its title, TTL, hash
\* list, down-time stamp and the other subscribers' entries.
C10_Subscribe ==
    \A s \in SubscriberIds, url \in Urls, rss \in RssInputs :
        LET f == gen_hash(url)
            r == subscribe(feeds, subscribers, s, url, rss)
        IN  IF is_subscribed(subscribers, s, url)
            THEN r.ret = FALSE /\ r.feeds = feeds /\ r.subscribers = subscribers /\ ~r.saved
            ELSE /\ r.ret = TRUE /\ ~r.panic
                 /\ s \in r.feeds[f].subscribers
                 /\ f \in r.subscribers[s]
                 /\ r.feeds[f].settings[s] = DefaultSettings
                 /\ f \notin DOMAIN feeds =>
                        /\ r.feeds[f].title = rss.title
                        /\ r.feeds[f].ttl = rss.ttl
                        /\ r.feeds[f].hash_list = ItemHashes(rss.items)
                 /\ f \in DOMAIN feeds =>
                        /\ r.feeds[f].title = feeds[f].title
                        /\ r.feeds[f].ttl = feeds[f].ttl
                        /\ r.feeds[f].hash_list = feeds[f].hash_list
                        /\ r.feeds[f].down_time = feeds[f].down_time
                        /\ r.feeds[f].subscribers \ {s} = feeds[f].subscribers \ {s}
                        /\ \A o \in DOMAIN feeds[f].settings \ {s} :
                               r.feeds[f].settings[o] = feeds[f].settings[o]

\* C4: for every known feed and every fetched content F, a second update(url, F)
\* right after update(url, F) returns an empty update list.
C4_UpdateIdempotent ==
    \A url \in Urls : gen_hash(url) \in DOMAIN feeds =>
        \A rss \in RssShrinkInputs :
            LET first == update(feeds, subscribers, url, rss)
                second == update(first.feeds, first.subscribers, url, rss)
            IN  second.ret = <<>>

HasItemsUpdate(updates) == \E i \in 1..Len(updates) : updates[i].type = "Items"

AbsentItems(items, hash_list) ==
    LET Absent(item) == \A i \in 1..Len(hash_list) : hash_list[i] # gen_item_hash(item)
    IN  SelectSeq(items, Absent)

\* C6: the Items update of update(url, F) on a known feed holds exactly the items
\* of F whose hash is absent from the hash list stored before the call, in fetch
\* order, and there is no Items update when no item is new.
C6_ItemsUpdate ==
    \A url \in Urls : gen_hash(url) \in DOMAIN feeds =>
        \A rss \in RssUpdateInputs :
            LET r == update(feeds, subscribers, url, rss)
                expected == AbsentItems(rss.items, feeds[gen_hash(url)].hash_list)
            IN  /\ expected # <<>> =>
                       /\ r.ret # <<>> /\ r.ret[1] = ItemsUpdate(expected)
                       /\ \A i \in 2..Len(r.ret) : r.ret[i].type # "Items"
                /\ expected = <<>> => ~HasItemsUpdate(r.ret)

\* An update reported two items with the same hash, both new, and skipped a
\* known one.
C6_Witness ==
    /\ last.op = "update" /\ HasItemsUpdate(last.ret)
    /\ last.args[2] = 3
    /\ Len(last.ret[1].items) = 2
    /\ gen_item_hash(last.ret[1].items[1]) = gen_item_hash(last.ret[1].items[2])
    /\ Len(feeds[gen_hash(UrlA)].hash_list) = 4

\* C7: when update finds a new item, the new hash list is the new items' hashes
\* in fetch order, then the leading entries of the previous list, at most
\* 2 x (number of fetched items) in all.  Subscribing with items [1, 2] seeds the
\* list <<1, 2>>, and update with [1, 2, 3] then returns one Items update holding
\* item 3 alone and stores all three hashes.
C7_NewHashList ==
    /\ \A url \in Urls : gen_hash(url) \in DOMAIN feeds =>
        \A rss \in RssUpdateInputs :
            LET f == gen_hash(url)
                old == feeds[f].hash_list
                r == update(feeds, subscribers, url, rss)
                fresh == ItemHashes(AbsentItems(rss.items, old))
                kept == Min(Len(old), 2 * Len(rss.items) - Len(fresh))
            IN  fresh # <<>> =>
                    /\ r.feeds[f].hash_list = fresh \o SubSeq(old, 1, kept)
                    /\ Len(r.feeds[f].hash_list) <= 2 * Len(rss.items)
    /\ (last.op = "subscribe" /\ last.ret = TRUE
        /\ feeds[gen_hash(UrlA)].hash_list = <<1, 2>>) =>
           LET r == update(feeds, subscribers, UrlA,
                           Rss(feeds[gen_hash(UrlA)].title, None,
                               <<ItemWithId(1), ItemWithId(2), ItemWithId(3)>>))
           IN  /\ r.ret = <<ItemsUpdate(<<ItemWithId(3)>>)>>
               /\ r.feeds[gen_hash(UrlA)].hash_list = <<3, 1, 2>>

\* The scenario happened: after subscribe with [1, 2], update with [1, 2, 3]
\* returned item 3 alone and the list holds the three hashes.
C7_Witness ==
    /\ last.op = "update"
    /\ last.args[2] = 3
    /\ last.ret = <<ItemsUpdate(<<ItemWithId(3)>>)>>
    /\ feeds[gen_hash(UrlA)].hash_list = <<3, 1, 2>>

\* What unsubscribe(s, url) must do when s is subscribed to url: return a feed
\* snapshot, drop s from the feed's subscriber set, from its settings map and
\* from index[s] (with the entry, when it empties), drop the feed iff s was its
\* last subscriber, and touch nothing else.
UnsubscribeRemoves(s, rss_link, r) ==
    LET f == gen_hash(rss_link) IN
    /\ r.ret # None /\ ~r.panic
    /\ r.ret[1].link = rss_link
    /\ f \in DOMAIN feeds
    /\ (f \in DOMAIN r.feeds) = (feeds[f].subscribers \ {s} # {})
    /\ f \in DOMAIN r.feeds =>
           /\ r.feeds[f].subscribers = feeds[f].subscribers \ {s}
           /\ r.feeds[f].settings = MapRemove(feeds[f].settings, s)
           /\ r.feeds[f] = [feeds[f] EXCEPT !.subscribers = @ \ {s},
                                            !.settings = MapRemove(@, s)]
    /\ \A g \in DOMAIN feeds \ {f} : g \in DOMAIN r.feeds /\ r.feeds[g] = feeds[g]
    /\ DOMAIN r.feeds \subseteq DOMAIN feeds
    /\ s \in DOMAIN subscribers
    /\ (s \in DOMAIN r.subscribers) = (subscribers[s] \ {f} # {})
    /\ s \in DOMAIN r.subscribers => r.subscribers[s] = subscribers[s] \ {f}
    /\ \A o \in DOMAIN subscribers \ {s} :
           o \in DOMAIN r.subscribers /\ r.subscribers[o] = subscribers[o]
    /\ DOMAIN r.subscribers \subseteq DOMAIN subscribers

\* C11: unsubscribe(s, url) returns nothing and leaves the whole store unchanged
\* when s is not subscribed to url (is_subscribed(s, url) is false); otherwise it
\* returns a feed snapshot, removes s from the feed's subscriber set, from its
\* settings map and from index[s] (deleting the entry when it becomes empty),
\* removes the feed iff s was its last subscriber, and leaves every other feed
\* and every other subscriber's entries unchanged.
C11_UnsubscribeFrame ==
    \A s \in SubscriberIds, url \in Urls :
        LET r == unsubscribe(feeds, subscribers, s, url) IN
        IF ~is_subscribed(subscribers, s, url)
        THEN r.ret = None /\ r.feeds = feeds /\ r.subscribers = subscribers /\ ~r.saved
        ELSE UnsubscribeRemoves(s, url, r)

\* An unsubscribe returned a snapshot, left the feed to its other subscriber and
\* left the caller its other subscription.
C11_Witness ==
    /\ last.op = "unsubscribe" /\ last.ret # None
    /\ last.args[1] \in DOMAIN subscribers
    /\ gen_hash(last.args[2]) \in DOMAIN feeds
    /\ feeds[gen_hash(last.args[2])].subscribers # {}
    /\ last.args[1] \notin DOMAIN feeds[gen_hash(last.args[2])].settings
    /\ last.ret[1].subscribers = feeds[gen_hash(last.args[2])].subscribers

\* The two feed maps hold the same feeds with the same subscriber sets, settings,
\* titles and TTLs.
SameFeedSet(a, b) ==
    /\ DOMAIN a = DOMAIN b
    /\ \A f \in DOMAIN a :
           /\ a[f].subscribers = b[f].subscribers
           /\ a[f].settings = b[f].settings
           /\ a[f].title = b[f].title
           /\ a[f].ttl = b[f].ttl

\* Reloading the file left by the call with result r yields the feeds of the
\* store the call left, whenever the call changed a feed.
PersistedAfter(r) ==
    (~r.panic /\ r.feeds # feeds) => SameFeedSet(open(FileAfter(r)).feeds, r.feeds)

\* Fetch results for a feed titled `title`: a new item, another title alone,
\* another TTL alone.
UpdateOutcomes(title) ==
    {Rss(title, None, <<ItemWithId(9)>>), Rss("c", None, <<>>), Rss(title, Some(2), <<>>)}

\* C12: after each mutating store operation (subscribe, unsubscribe,
\* update_setting, update on a known feed with new items, with a title change
\* only or with a TTL change only, migrate_subscriber), reloading the store from
\* the persisted file yields the same feeds with the same subscriber sets,
\* settings, titles and TTLs as the in-memory store.
C12_Persisted ==
    /\ \A s \in SubscriberIds, url \in Urls :
           /\ PersistedAfter(subscribe(feeds, subscribers, s, url, RssFixed))
           /\ PersistedAfter(unsubscribe(feeds, subscribers, s, url))
           /\ \A ns \in SettingsInputs :
                  PersistedAfter(update_setting(feeds, subscribers, s, url, ns))
    /\ \A url \in Urls : gen_hash(url) \in DOMAIN feeds =>
           \A rss \in UpdateOutcomes(feeds[gen_hash(url)].title) :
               PersistedAfter(update(feeds, subscribers, url, rss))
    /\ \A from, to \in SubscriberIds :
           \A order \in Orders(EntryOf(subscribers, from)) :
               PersistedAfter(update_subscriber(feeds, subscribers, from, to, order))

(***************************************************************************)
(* Properties of the fetcher.                                              *)
(***************************************************************************)

\* C13: for every feed URL at most one fetch-and-notify cycle is in flight at any
\* time, whatever the order of ticks, dequeues and cycle steps.
C13_OneCyclePerFeed ==
    \A i, j \in DOMAIN tasks : i # j => tasks[i].feed.link # tasks[j].feed.link
\* The links that have a timer in the queue.
TimerLinks(nt) == {e.link : e \in nt}

\* The feeds a tick can offer the queue: those of the store, and those it held
\* when they were enqueued.
Offered ==
    {Snapshot(feeds[f]) : f \in DOMAIN feeds} \cup {qfeeds[l] : l \in DOMAIN qfeeds}

\* C14: enqueue is idempotent per URL: for a URL that is queued it returns false
\* and changes nothing (the entry keeps its delay and its feed data), otherwise it
\* adds the URL with the given delay.  In every reachable state the queue holds
\* at most one timer per URL and the URLs with a timer are those with stored feed
\* data.  next hands out the stored feed of a due timer and removes both, so an
\* accepted entry is handed out once; the cycle spawned for it holds that feed.
C14_QueueIdempotent ==
    /\ \A e1, e2 \in notifies : e1.link = e2.link => e1 = e2
    /\ TimerLinks(notifies) = DOMAIN qfeeds
    /\ \A feed \in Offered, delay \in {MinInterval - 1, MaxInterval - 1} :
           LET r == enqueue(qfeeds, notifies, feed, delay) IN
           IF feed.link \in TimerLinks(notifies)
           THEN r.ret = FALSE /\ r.feeds = qfeeds /\ r.notifies = notifies
           ELSE /\ r.ret = TRUE
                /\ r.notifies = notifies \cup {Timer(feed.link, delay)}
                /\ r.feeds = MapInsert(qfeeds, feed.link, feed)
    /\ \A e \in notifies :
           LET r == next(qfeeds, notifies, e) IN
           /\ ~r.panic
           /\ r.ret = Some(qfeeds[e.link])
           /\ e.link \notin DOMAIN r.feeds
           /\ e.link \notin TimerLinks(r.notifies)
           /\ r.notifies = notifies \ {e}
           /\ r.feeds = MapRemove(qfeeds, e.link)
    /\ (ev.type = "dequeue") =>
           /\ ev.outcome = "ok"
           /\ ev.link \notin DOMAIN qfeeds
           /\ ev.link \notin TimerLinks(notifies)
           /\ tasks # <<>> /\ tasks[Len(tasks)].feed.link = ev.link

\* A tick found a feed queued whose delay is by now another one, and the queued
\* entry kept the delay and the subscribers it was enqueued with.
C14_Witness ==
    /\ ev.type = "tick"
    /\ \E e \in notifies :
           /\ gen_hash(e.link) \in DOMAIN feeds
           /\ FeedInterval(feeds[gen_hash(e.link)]) # e.delay
           /\ e.expired
    /\ Cardinality(notifies) = 2
\* k acquisitions in a row from the counter value c: the slots handed out and the
\* counter they leave.
RECURSIVE AcquireRun(_, _)
AcquireRun(c, k) ==
    IF k = 0 THEN [slots |-> <<>>, counter |-> c]
    ELSE LET a == acquire(c)
             rest == AcquireRun(a.counter, k - 1)
         IN  [slots |-> <<a.n>> \o rest.slots, counter |-> rest.counter]

\* The counter after k Opportunities are dropped.
RECURSIVE DropRun(_, _)
DropRun(c, k) == IF k = 0 THEN c ELSE DropRun(drop(c), k - 1)

\* C15: the throttle's counter is the number of units in flight, so it is 0 once
\* all acquired units have completed; a unit acquired while m units are in flight
\* gets slot m modulo N; k acquisitions with no release in between get consecutive
\* slots modulo N in acquisition order, from slot 0 when no unit was in flight
\* (N = 3 and 5 acquisitions give 0, 1, 2, 0, 1), and releasing them restores the
\* counter.
C15_Throttle ==
    /\ counter = Len(tasks)
    /\ tasks = <<>> => counter = 0
    /\ (ev.type = "dequeue" /\ ev.outcome = "ok") =>
           tasks[Len(tasks)].n = (Len(tasks) - 1) % MinInterval
    /\ \A k \in 0..MaxAcquired :
           LET run == AcquireRun(counter, k) IN
           /\ \A i \in 1..k : run.slots[i] = (counter + i - 1) % MinInterval
           /\ run.counter = counter + k
           /\ DropRun(run.counter, k) = counter
    /\ MinInterval = 3 => AcquireRun(0, 5).slots = <<0, 1, 2, 0, 1>>

\* Five cycles were spawned with none ending in between: their slots are
\* 0, 1, 2, 0, 1.
C15_Witness ==
    /\ Len(tasks) = 5
    /\ counter = 5
    /\ [i \in 1..5 |-> tasks[i].n] = <<0, 1, 2, 0, 1>>
    /\ ev.type = "dequeue"
\* C16: a failure inside one feed's cycle is confined to that cycle: whatever the
\* cycles did and however they ended (a later message pushed to a subscriber that
\* an earlier send of the cycle deleted or migrated included), the store lock can
\* still be acquired and the scheduler loop is alive.
C16_FailureConfined == ~poisoned /\ running

\* s is in the subscriber set of the feed of rss_link.
InSubscriberSet(fs, s, rss_link) ==
    gen_hash(rss_link) \in DOMAIN fs /\ s \in fs[gen_hash(rss_link)].subscribers

\* C17: with a channel that only delivers or asks to wait, an unsubscribe at any
\* point of a feed's cycle is a silent abort: no cycle ends with an error or a
\* crash, the lock stays sound, and no send goes out to an identifier that is not
\* a subscriber of the feed at that moment.
C17_UnsubscribeSilent ==
    /\ ev # NoEvent => ev.outcome \notin {"err", "panic"}
    /\ ~poisoned
    /\ (ev # NoEvent /\ ev.sent # None) => InSubscriberSet(feeds, ev.sent[1], ev.link)

\* C18: when the three attempts for one subscriber and one message are used up
\* without a successful send, the cycle ends with an error; an error that is
\* neither unavailability, migration nor rate limit ends the cycle with an error
\* at once, with no further send in it.
C18_RetriesExhausted ==
    /\ ev.type = "exhausted" => (ev.outcome = "err" /\ tasks = <<>>)
    /\ (ev.type = "answer" /\ ev.answer = "error") =>
           (ev.outcome = "err" /\ ev.sent = None /\ tasks = <<>>)

\* What delete_subscriber must leave of the store `fs`, `idx` in r: s nowhere,
\* the feeds that had s alone removed, everything of the others as it was.
Deleted(fs, idx, s, r) ==
    /\ ~r.panic
    /\ ~AppearsIn(r.feeds, r.subscribers, s)
    /\ DOMAIN r.feeds = {f \in DOMAIN fs : fs[f].subscribers \ {s} # {}}
    /\ \A f \in DOMAIN r.feeds :
           r.feeds[f] = [fs[f] EXCEPT !.subscribers = @ \ {s},
                                      !.settings = MapRemove(@, s)]
    /\ r.subscribers = MapRemove(idx, s)

\* C19: when the channel reports the target as permanently unavailable, the
\* subscriber is deleted from the store entirely (no index entry, in no feed's
\* subscriber set or settings map, the feeds it subscribed alone removed, every
\* other subscriber's subscriptions and settings unchanged), no further send to
\* it is attempted for this message, and no error is reported to the cycle.
C19_UnavailableDeleted ==
    /\ \A i \in DOMAIN tasks : tasks[i].pc = "send" =>
           \A order \in Orders(EntryOf(subscribers, tasks[i].subscriber)) :
               Deleted(feeds, subscribers, tasks[i].subscriber,
                       delete_subscriber(feeds, subscribers, tasks[i].subscriber, order))
    /\ (ev.type = "answer" /\ ev.answer = "unavailable") =>
           /\ ev.outcome \in {"next", "ok"}
           /\ ev.sent = None
           /\ ~AppearsIn(feeds, subscribers, ev.to)

\* What update_subscriber(s, to) must leave of the store `fs`, `idx` in r: every
\* feed that had s in its subscriber set has `to` there with the settings of s,
\* and s is gone from the index, the subscriber sets and the settings maps.
Migrated(fs, idx, s, to, r) ==
    /\ ~r.panic
    /\ \A f \in DOMAIN fs : s \in fs[f].subscribers =>
           /\ f \in DOMAIN r.feeds
           /\ to \in r.feeds[f].subscribers
           /\ to \in DOMAIN r.feeds[f].settings
           /\ s \in DOMAIN fs[f].settings
           /\ r.feeds[f].settings[to] = fs[f].settings[s]
           /\ to \in DOMAIN r.subscribers /\ f \in r.subscribers[to]
    /\ ~AppearsIn(r.feeds, r.subscribers, s)

\* C20: when the channel reports that the target was migrated to a new
\* identifier, the store moves all subscriptions and settings of the old
\* identifier to the new one before the next attempt, and every later attempt for
\* that message goes to the new identifier and never to an old one.
C20_MigratedMoved ==
    /\ \A i \in DOMAIN tasks : tasks[i].pc = "send" =>
           \A to \in SubscriberIds \ (tasks[i].olds \cup {tasks[i].subscriber}) :
               \A order \in Orders(EntryOf(subscribers, tasks[i].subscriber)) :
                   Migrated(feeds, subscribers, tasks[i].subscriber, to,
                            update_subscriber(feeds, subscribers, tasks[i].subscriber, to,
                                              order))
    /\ (ev.type = "answer" /\ ev.answer = "migrated") =>
           /\ ev.outcome = "retry"
           /\ ev.sent = Some(last.args[2])
           /\ ev.to \in ev.olds
    /\ (ev # NoEvent /\ ev.sent # None) => ev.sent[1] \notin ev.olds
    /\ \A i \in DOMAIN tasks : tasks[i].pc = "send" =>
           tasks[i].subscriber \notin tasks[i].olds
(***************************************************************************)
(* Properties of the cycles.                                               *)
(***************************************************************************)
\* The days elapsed since the first failed fetch of link.
DaysDown(link) == now - down[link].since

\* C21 as stated: for a feed whose every fetch fails, one escalation notice has
\* been sent once the fetch of the day on which the down time reaches 5 days
\* has run, and a second one once the fetch of day 10 has run; none before.
C21_NoticeAtDayFive ==
    FailedToday(UrlA) => Len(down[UrlA].notices) = DaysDown(UrlA) \div FiveDays

\* The identifiers the cycle i pushes each of its messages to.
Addressees(i) == {tasks[i].order[k] : k \in 1..Len(tasks[i].order)}

\* C22: when the update of a cycle produced an Items or Title update (and when
\* the notice of a broken feed is due), the messages go to every subscriber the
\* feed has in the store at that time, one that subscribed after the feed was
\* queued included.
C22_AllCurrentSubscribers ==
    (ev.type \in {"fetch", "notice"} /\ ev.outcome = "next") =>
        \A i \in DOMAIN tasks :
            (tasks[i].feed.link = ev.link /\ tasks[i].pc = "push" /\ tasks[i].i = 1
                /\ gen_hash(ev.link) \in DOMAIN feeds) =>
                Addressees(i) = feeds[gen_hash(ev.link)].subscribers

\* clamp(ttl * 60, min_interval, max_interval) over the integers, min_interval
\* being the base of a feed without TTL.
Clamp(ttl) ==
    IF ttl = None THEN MinInterval
    ELSE IF ttl[1] >= (MaxInterval + 59) \div 60 THEN MaxInterval
    ELSE Max(ttl[1] * 60, MinInterval)

\* C23: on every tick each stored feed is offered to the queue with the delay
\* clamp(ttl * 60, min_interval, max_interval) - 1, whatever its TTL: the tick
\* never fails, and every timer set by it carries that delay, which lies in
\* [min_interval - 1, max_interval - 1].
C23_DelayIsClamp ==
    /\ running
    /\ \A f \in DOMAIN feeds :
           /\ FeedInterval(feeds[f]) = Clamp(feeds[f].ttl) - 1
           /\ FeedInterval(feeds[f]) \in (MinInterval - 1)..(MaxInterval - 1)
    /\ ev.type = "tick" =>
           \A f \in DOMAIN feeds : \E e \in notifies : e.link = feeds[f].link
    /\ \A e \in notifies : e.delay \in (MinInterval - 1)..(MaxInterval - 1)

\* Cycle i is at a suspension point: in its throttle delay, awaiting the answer
\* of a send, or asleep on a rate limit.  (A cycle whose fetch is still awaited
\* is one at "fetch" that has not yet called db.lock().)
Suspended(i) == tasks[i].pc \in {"wait", "send", "sleep"}

Holders == {i \in DOMAIN tasks : tasks[i].lock = "held"}

Waiting(i) == i \in DOMAIN tasks /\ tasks[i].lock = "waiting"

Known(link) == gen_hash(link) \in DOMAIN feeds

\* The down-time stamp of the stored feed of link.
Stamp(link) == feeds[gen_hash(link)].down_time

\* What a step does to the stamp of the known feed of link.
StampStep(link) ==
    IF last'.op \in {"update", "reset_down_time"} /\ last'.args[1] = link
    THEN Known(link)' /\ Stamp(link)' = None
    ELSE IF last'.op = "get_or_update_down_time" /\ last'.args[1] = link
    THEN IF Stamp(link) = None
         THEN Stamp(link)' = Some(now) /\ last'.ret = Some(0)
         ELSE Stamp(link)' = Stamp(link) /\ last'.ret = Some(now - Stamp(link)[1])
    ELSE Known(link)' => Stamp(link)' = Stamp(link)

\* C25: on a known feed get_or_update_down_time stamps the feed with the time
\* of the call and returns zero when it has no stamp, and else returns the time
\* since the stamp and leaves it; reset_down_time and update clear the stamp;
\* no other step touches it.  So a stamp that is set is the time of the first
\* failed fetch since the last successful update or reset, and no stamp is set
\* when no fetch has failed since.
C25_StampIsFirstFailure ==
    /\ [][\A link \in Urls : Known(link) => StampStep(link)]_vars
    /\ [](\A link \in Urls :
            Known(link) =>
                Stamp(link) = (IF link \in DOMAIN down THEN down[link].first ELSE None))

\* A fetch has failed some days after the first failure: the call returned the
\* days since and left the stamp.
C25_Witness ==
    /\ last.op = "get_or_update_down_time" /\ Known(UrlA)
    /\ last.ret # None /\ last.ret[1] > 0
    /\ Stamp(UrlA) = Some(now - last.ret[1])

\* What update, get_or_update_down_time and reset_down_time return for a feed
\* the store does not have.
NotFound(op) ==
    CASE op = "update" -> <<>>
      [] op = "get_or_update_down_time" -> None
      [] op = "reset_down_time" -> FALSE

\* C26: for a URL the store does not have, update, get_or_update_down_time and
\* reset_down_time return empty, nothing and failure and leave the store (and
\* its file) as it was; and the cycle whose fetch of such a URL has ended,
\* well or badly, ends there, its slot released, before any send (with Ok, or
\* without a store call by the panic of lock().unwrap() on a poisoned lock).
C26_UnknownUrlIsSilent ==
    [][\A link \in Urls :
          ~Known(link) =>
              /\ (last'.op \in {"update", "get_or_update_down_time", "reset_down_time"}
                     /\ last'.args[1] = link)
                  => /\ last'.ret = NotFound(last'.op)
                     /\ ~last'.panic
                     /\ UNCHANGED <<feeds, subscribers, file, poisoned>>
              /\ (tasks' # tasks /\ ev'.type \in {"fetch", "fetch_error"} /\ ev'.link = link)
                  => /\ ev'.outcome \in {"ok", "panic"}
                     /\ Len(tasks') = Len(tasks) - 1
                     /\ counter' = counter - 1
                     /\ \A i \in DOMAIN tasks' : tasks'[i].pc # "send"]_vars

\* The feed was unsubscribed while its cycle was fetching, and the fetch has
\* ended: update returned nothing and the cycle is gone.
C26_Witness ==
    /\ ~Known(UrlA) /\ last.op = "update" /\ last.args[1] = UrlA
    /\ ev.type = "fetch" /\ ev.outcome = "ok" /\ tasks = <<>>

\* A cycle ended in this step.
CycleEnds == Len(tasks') < Len(tasks)

\* C27: the throttle counter is the number of cycles that hold a slot, never
\* negative and 0 when none is in flight; a step that ends a cycle ends one and
\* gives back one slot, however the cycle ended (done, aborted in silence,
\* failed send, panic), and no other step gives a slot back.
C27_SlotReleasedOnce ==
    /\ [](counter = Len(tasks) /\ counter >= 0 /\ (tasks = <<>> => counter = 0))
    /\ [][/\ CycleEnds => /\ Len(tasks') = Len(tasks) - 1
                          /\ counter' = counter - 1
                          /\ ev'.outcome \in {"ok", "err", "panic"}
          /\ ~CycleEnds => counter' - counter = Len(tasks') - Len(tasks)]_vars

\* A cycle has ended by the error of a send, and no cycle is in flight.
C27_Witness == ev # NoEvent /\ ev.outcome = "err" /\ tasks = <<>> /\ counter = 0

\* The entry of link in the due-queue is due.
Due(link) == \E e \in notifies : e.link = link /\ e.expired

\* A cycle of link is fetching.
Fetching(link) == \E i \in DOMAIN tasks : tasks[i].feed.link = link /\ tasks[i].pc = "fetch"

\* C28: neither branch of the scheduler loop starves: the loop goes on
\* servicing the tick, a due entry of the queue is handed to a cycle, and a
\* feed that stays in the store is fetched again and again.
C28_NoStarvation ==
    /\ []<>(running /\ ev # NoEvent /\ ev.type = "tick" /\ ev.outcome = "ok")
    /\ \A link \in Urls : Due(link) ~> ~Due(link)
    /\ \A link \in Urls : <>[]Known(link) => []<>Fetching(link)

\* What a step of the cycle i that goes on does about the message it is
\* sending: where it stands after the answer to a send, after the sleep a rate
\* limit asked for, and when it turns to a subscriber.
SendStep(i) ==
    LET t == tasks[i]
        u == tasks'[i]
    IN  CASE t.pc = "send" ->
               \/ ev'.answer \in {"ok", "unavailable"} /\ u.pc = "push"
               \/ /\ ev'.answer = "migrated"
                  /\ IF t.attempt < MaxAttempts
                     THEN u.pc = "send" /\ u.attempt = t.attempt + 1
                     ELSE u.pc = "push"
               \/ ev'.answer = "retry_after" /\ u.pc = "sleep" /\ u.attempt = t.attempt
          [] t.pc = "sleep" ->
               IF t.attempt < MaxAttempts
               THEN u.pc = "send" /\ u.attempt = t.attempt + 1
               ELSE u.pc = "push"
          [] t.pc = "push" -> u.pc = "send" /\ u.attempt = 1
          [] OTHER -> u.pc # "send"

\* C29: a message is sent to a subscriber at most 3 times, the sends answered
\* by a migration or a rate limit among them; no send follows a delivered or
\* an unavailable answer, and the send after a rate limit follows the sleep.
C29_AtMostThreeSends ==
    /\ [](\A i \in DOMAIN tasks :
            /\ tasks[i].attempt <= MaxAttempts
            /\ tasks[i].pc \in {"send", "sleep"} => tasks[i].attempt >= 1)
    /\ [][\A i \in DOMAIN tasks :
            (tasks' # tasks /\ Len(tasks') = Len(tasks)) => SendStep(i)]_vars

\* The third send of a message was answered by a rate limit: after the sleep
\* the cycle gives the message up.
C29_Witness ==
    /\ ev # NoEvent /\ ev.type = "exhausted"
    /\ ev.attempt = MaxAttempts /\ ev.answer = "retry_after"

\* C30: a cycle leaves its delay and its fetch for its sends only through
\* update, so no send comes before it; and the update of a cycle that fetched
\* the content the update before it was given finds no item to send.
C30_AtMostOnce ==
    /\ [][\A i \in DOMAIN tasks :
            (/\ tasks' # tasks /\ Len(tasks') = Len(tasks)
             /\ tasks[i].pc \in {"wait", "fetch"}
             /\ tasks'[i].pc \notin {"wait", "fetch"})
            => (tasks[i].pc = "fetch" /\ last'.op = "update" /\ tasks'[i].pc = "push")]_vars
    /\ [][(/\ tasks' # tasks
           /\ last.op = "update" /\ last'.op = "update" /\ last'.args = last.args)
          => CountType(last'.ret, "Items") = 0]_vars

Is64(w) == w.op \in {"write_u64", "write_i64"}

\* The u64 that has the bits of the written value: the value itself, or for
\* a negative i64 the v with v + |i| = 2^64.
IsBitsOf(v, a) ==
    IF a.neg THEN AddU64(v, a.mag) = [limbs |-> <<0, 0, 0, 0>>, carry |-> 1]
    ELSE v = a.mag

\* C31: after one write of a u64 or an i64, finish returns the value written,
\* an i64 as the u64 of the same bits (-42 gives 2^64 - 42); a second write is
\* rejected, and so is a write of another type, the first or the second.
C31_Size64Identity ==
    /\ (Len(writes) = 1 /\ Is64(writes[1])) =>
           /\ hasher.panic = None
           /\ IsBitsOf(finish(hasher), writes[1].arg)
    /\ (Len(writes) = 1 /\ writes[1] = [op |-> "write_i64", arg |-> Int64(TRUE, <<0, 0, 0, 42>>)])
           => finish(hasher) = <<65535, 65535, 65535, 65494>>
    /\ (Len(writes) = 2 /\ Is64(writes[1]) /\ Is64(writes[2])) =>
           /\ hasher.panic = Some("this is a special hasher, do not write twice")
           /\ IsBitsOf(finish(hasher), writes[1].arg)
    /\ (writes # <<>> /\ ~Is64(writes[Len(writes)])) =>
           hasher.panic = Some("only support u64 and i64")

\* -42 was written as an i64, and finish returns 2^64 - 42.
C31_Witness ==
    /\ writes = <<[op |-> "write_i64", arg |-> Int64(TRUE, <<0, 0, 0, 42>>)]>>
    /\ hasher.panic = None
    /\ finish(hasher) = <<65535, 65535, 65535, 65494>>

====
